---- MODULE Spec2Model ----
(***************************************************************************)
(* uplnk: a browser upload primitive.                                      *)
(*   doUpload     one XMLHttpRequest attempt (progress, timeout, abort)    *)
(*   uplnk        the retry loop around doUpload                           *)
(*   batchUpload  bounded-concurrency orchestration of uplnk calls         *)
(* The runtime is single-threaded: a macrotask (transport event, timer,    *)
(* outside call) runs to completion, then the pending promise reactions    *)
(* (jobs) run before the next macrotask.                                   *)
(***************************************************************************)
EXTENDS Integers, Sequences, FiniteSets, TLC

VARIABLES
  now,            \* Date.now()
  xhrAbortEvents, \* does XMLHttpRequest.abort() dispatch an "abort" event
  lengthComputable, \* do the transport's progress events carry a total
  opts,           \* opts[c]: the UplnkOptions of call c
  signalAborted,  \* signal.aborted of the AbortSignal handed to the calls
  atts,           \* atts[c]: the doUpload invocations of call c, in order
  call,           \* call[c]: the state of the uplnk(options) invocation c
  jobs,           \* promise reactions waiting to run (microtasks)
  bopts,          \* the BatchUploadOptions
  pcBatch,        \* where batchUpload is: off, init, race, all, spin, done
  item,           \* item[i]: the BatchUploadItem of upload i
  completed,      \* batchUpload's counters and flags
  failed,
  aborted,
  batchListening, \* batchUpload's onAbort is registered on the signal
  queue,          \* the items not yet dispatched
  active,         \* the items whose processItem promise is in the active array
  lastProgress,   \* the BatchProgress last handed to the batch onProgress
  emits,          \* the calls of the batch onProgress: how many, and the first
  result,         \* the BatchUploadResult returned
  uploads,        \* uploads.length of the batchUpload call
  q,              \* the closure of createUploadQueue
  args,           \* the arguments of a call of one of the library's functions
  ret             \* what that call returned

vars == <<now, xhrAbortEvents, lengthComputable, opts, signalAborted, atts, call, jobs, bopts, pcBatch,
          item, completed, failed, aborted, batchListening, queue, active,
          lastProgress, emits, result, uploads, q, args, ret>>

----------------------------------------------------------------------------
\* Bounds of the model
MaxAttempts == 2     \* largest RetryOptions.attempts tried
MaxCalls == 3        \* uploads of a batch
MaxFuse == 1         \* a callback fires the signal: which callback of a handler
MaxConcurrency == 2  \* largest concurrency limit tried
MaxProgress == 3     \* transport progress events per attempt
MaxTicks == 1        \* clock steps
MaxStarts == 2       \* batches an upload queue launches
PayloadSize == 4     \* bytes of each file
RandomSteps == 4     \* values of Math.random() tried
MaxBackoff == 5      \* largest attempt index given to calculateBackoffDelay

\* Program constants
DEFAULT_THROTTLE_MS == 100
BaseDelayMs == 1000
MaxDelayMs == 30000

Epoch == 100000                  \* Date.now() when the caller starts
TickMs == DEFAULT_THROTTLE_MS    \* a clock step: one throttle window
TimeoutMs == TickMs              \* the timeoutMs tried: one clock step

Undef == -1          \* JavaScript undefined, for optional numbers
Calls == 1..MaxCalls
MaxAdds == MaxCalls - 1   \* add() calls on an upload queue
Statuses == {199, 200, 299, 300, 503}   \* the xhr.status values tried
ResponseTexts == {"", "body"}           \* the xhr.responseText values tried

Min(a, b) == IF a < b THEN a ELSE b

RECURSIVE Pow2(_)
Pow2(n) == IF n <= 0 THEN 1 ELSE 2 * Pow2(n - 1)

----------------------------------------------------------------------------
\* UploadError variants, plus the Error thrown for a missing url
\* (response "" stands for an absent response field)
NoErr == [type |-> "none", status |-> 0, response |-> ""]
AbortErr == [type |-> "abort", status |-> 0, response |-> ""]
TimeoutErr == [type |-> "timeout", status |-> 0, response |-> ""]
NetworkErr == [type |-> "network", status |-> 0, response |-> ""]
HttpErr(s) == [type |-> "http", status |-> s, response |-> ""]
UrlErr == [type |-> "url", status |-> 0, response |-> ""]

\* Retry policies, as the named constructors build them
NoRetry == [attempts |-> 0, delayMs |-> [kind |-> "none", ms |-> 0, fn |-> "none"],
            shouldRetry |-> "none"]

NumberDelay(ms) == [kind |-> "number", ms |-> ms, fn |-> "none"]
FunctionDelay(fn) == [kind |-> "function", ms |-> 0, fn |-> fn]

exponentialBackoff(n) ==
  [attempts |-> n, delayMs |-> FunctionDelay("backoff"), shouldRetry |-> "retryable"]

fixedDelay(n) ==
  [attempts |-> n, delayMs |-> NumberDelay(BaseDelayMs), shouldRetry |-> "retryable"]

networkErrorsOnly(n) ==
  [attempts |-> n, delayMs |-> NumberDelay(BaseDelayMs), shouldRetry |-> "network"]

customRetry(n, pred, getDelay) ==
  [attempts |-> n,
   delayMs |-> IF getDelay = "none" THEN NumberDelay(BaseDelayMs) ELSE FunctionDelay(getDelay),
   shouldRetry |-> pred]

RetryableStatuses == {408, 429, 500, 502, 503, 504}

\* (mutant) exponentialBackoff's shouldRetry without the abort test first
exponentialBackoffRetriesAll(retryableStatuses, err, attempt) ==
  IF err.type = "network" THEN TRUE
  ELSE IF err.type = "timeout" THEN TRUE
  ELSE IF err.type = "http" /\ err.status \in retryableStatuses THEN TRUE
  ELSE err.type = "abort"

\* the shouldRetry closure exponentialBackoff() returns
exponentialBackoffShouldRetry(retryableStatuses, err, attempt) ==
  IF err.type = "abort" THEN FALSE
  ELSE IF err.type = "network" THEN TRUE
  ELSE IF err.type = "timeout" THEN TRUE
  ELSE IF err.type = "http" /\ err.status \in retryableStatuses THEN TRUE
  ELSE FALSE

\* the shouldRetry closure fixedDelay() returns
fixedDelayShouldRetry(retryableStatuses, err) ==
  IF err.type = "abort" THEN FALSE
  ELSE IF err.type = "network" \/ err.type = "timeout" THEN TRUE
  ELSE IF err.type = "http" /\ err.status \in retryableStatuses THEN TRUE
  ELSE FALSE

\* the shouldRetry closure networkErrorsOnly() returns
networkErrorsOnlyShouldRetry(err) == err.type = "network"

\* retry.shouldRetry(err, attempt)
ShouldRetry(pred, err, attempt) ==
  CASE pred = "always" -> TRUE
    [] pred = "never" -> FALSE
    [] pred = "network" -> networkErrorsOnlyShouldRetry(err)
    [] pred = "retryable" ->
         exponentialBackoffShouldRetry(RetryableStatuses, err, attempt)
    [] OTHER -> FALSE

\* Math.random() is random / RandomSteps, one of 0, 1/RandomSteps, ... below 1
Randoms == 0..(RandomSteps - 1)

\* (mutant) the jitter is centred on the delay: it may shorten it
calculateBackoffDelayCentred(attempt, baseDelayMs, maxDelayMs, jitter, random) ==
  LET exponentialDelay == Min(baseDelayMs * Pow2(attempt), maxDelayMs)
  IN  IF ~jitter THEN [num |-> exponentialDelay, den |-> 1]
      ELSE [num |-> exponentialDelay * 4 * RandomSteps
                    + exponentialDelay * (2 * random - RandomSteps),
            den |-> 4 * RandomSteps]

\* calculateBackoffDelay(attempt, baseDelayMs, maxDelayMs, jitter), a ratio:
\* exponentialDelay + exponentialDelay * 0.25 * Math.random()
calculateBackoffDelay(attempt, baseDelayMs, maxDelayMs, jitter, random) ==
  LET exponentialDelay == Min(baseDelayMs * Pow2(attempt), maxDelayMs)
  IN  IF ~jitter THEN [num |-> exponentialDelay, den |-> 1]
      ELSE [num |-> exponentialDelay * 4 * RandomSteps + exponentialDelay * random,
            den |-> 4 * RandomSteps]

\* the value of a delayMs function at an attempt index (no jitter)
DelayFn(fn, attempt) ==
  IF fn = "backoff"
  THEN calculateBackoffDelay(attempt, BaseDelayMs, MaxDelayMs, FALSE, 0).num
  ELSE BaseDelayMs * (attempt + 1)

\* setTimeout(r, delayMs): the timer converts its delay argument to a number;
\* a function converts to NaN, which a timer treats as 0
TimerDelay(delayMs) ==
  IF delayMs.kind = "number" THEN delayMs.ms ELSE 0

----------------------------------------------------------------------------
\* Progress snapshots and callback records
NoProgress == [loaded |-> Undef, total |-> Undef, percent |-> Undef]

createProgress(loaded, total) ==
  LET totalNum == IF total = Undef THEN 0 ELSE total
      percent == IF totalNum > 0 THEN Min(100, (loaded * 100) \div totalNum) ELSE Undef
  IN  [loaded |-> loaded,
       total |-> IF totalNum = 0 THEN Undef ELSE totalNum,
       percent |-> percent]

CbStart == [cb |-> "onStart", err |-> NoErr, p |-> NoProgress]
CbProgress(p) == [cb |-> "onProgress", err |-> NoErr, p |-> p]
CbResponse == [cb |-> "onResponse", err |-> NoErr, p |-> NoProgress]
CbError(e) == [cb |-> "onError", err |-> e, p |-> NoProgress]

\* the closure state of one doUpload invocation
NewAttempt ==
  [xhr |-> "unsent",        \* unsent, opened, sent (in flight), done
   status |-> 0,            \* xhr.status
   responseText |-> "",     \* xhr.responseText
   abortCalled |-> FALSE,   \* xhr.abort() was invoked
   listening |-> FALSE,     \* onAbort is registered on the signal
   timer |-> "none",        \* none, armed, cleared, fired
   promise |-> "pending",   \* pending, resolved, rejected
   err |-> NoErr,           \* the rejection value
   lastEmitTime |-> 0,
   startTime |-> now,
   loaded |-> 0,            \* bytes the transport has reported
   nprogress |-> 0,         \* transport progress events delivered to onProgress
   events |-> <<>>,         \* the loaded counts the transport reported (standalone calls)
   progressAt |-> Undef,    \* Date.now() at the latest onProgress call (standalone calls)
   openAt |-> Undef,        \* callbacks invoked before xhr.open()
   sendAt |-> Undef,        \* callbacks invoked before xhr.send()
   log |-> <<>>]            \* the callbacks invoked, in order (standalone calls)

----------------------------------------------------------------------------
\* The mutable world the handlers act on. Handlers are operators from worlds
\* to worlds, so that a user callback that calls controller.abort() runs the
\* signal's listeners inside the handler that invoked the callback.
\* W.fuse = n > 0: the n-th user callback invoked from now on fires the signal.

UplnkJob(c) == [kind |-> "uplnk", c |-> c]
ItemJob(c) == [kind |-> "item", c |-> c]
ThenJob(c) == [kind |-> "then", c |-> c]
LoopJob == [kind |-> "loop", c |-> 0]
ReturnJob == [kind |-> "return", c |-> 0]
FinallyJob == [kind |-> "finally", c |-> 0]
WaitJob == [kind |-> "wait", c |-> 0]

\* the observer of a standalone call's callbacks
Record(W, c, k, entry) ==
  IF W.pcBatch = "off"
  THEN [W EXCEPT !.atts[c][k].log = Append(@, entry),
                 !.atts[c][k].progressAt = IF entry.cb = "onProgress" THEN now ELSE @]
  ELSE W

\* resolve()/reject() of attempt k of call c: only the first settlement counts;
\* the awaiting uplnk call is resumed by a promise reaction
Settle(W, c, k, res, err) ==
  IF W.atts[c][k].promise # "pending" THEN W
  ELSE LET W1 == [W EXCEPT !.atts[c][k].promise = res, !.atts[c][k].err = err]
       IN  IF k = Len(W.atts[c]) /\ W.call[c].pc = "attempt"
           THEN [W1 EXCEPT !.jobs = @ \cup {UplnkJob(c)}]
           ELSE W1

\* onAbort of one attempt: handleError({type: "abort"}), nothing else
onAbort(W, c, k) ==
  Settle(Record(W, c, k, CbError(AbortErr)), c, k, "rejected", AbortErr)

RECURSIVE AbortAttempts(_, _, _)
AbortAttempts(W, c, k) ==
  IF c > MaxCalls THEN W
  ELSE IF k > Len(W.atts[c]) THEN AbortAttempts(W, c + 1, 1)
  ELSE AbortAttempts(IF W.atts[c][k].listening THEN onAbort(W, c, k) ELSE W, c, k + 1)

\* (mutant) batchUpload's onAbort leaves the abort flag alone
batchOnAbortNoFlag(W) == W

\* batchUpload's onAbort
batchOnAbort(W) == [W EXCEPT !.aborted = TRUE]

\* controller.abort(): the signal's listeners run synchronously
dispatchAbort(W) ==
  IF W.sig THEN W
  ELSE LET W1 == [W EXCEPT !.sig = TRUE, !.fuse = 0]
       IN  AbortAttempts(IF W.batchListening THEN batchOnAbort(W1) ELSE W1, 1, 1)

\* (mutant) abort() only marks the queue idle
abortFlagOnly(W) == [W EXCEPT !.q.isRunning = FALSE]

\* abort() of the upload queue
abort(W) == [dispatchAbort(W) EXCEPT !.q.isRunning = FALSE]

\* a user-supplied callback runs; the one that cancels calls the queue's
\* abort() when the batch is a queue's, controller.abort() otherwise
UserCallback(W) ==
  IF W.fuse = 1 THEN (IF W.q.made THEN abort(W) ELSE dispatchAbort(W))
  ELSE [W EXCEPT !.fuse = IF @ > 0 THEN @ - 1 ELSE 0]

----------------------------------------------------------------------------
\* batchUpload's progress aggregation

NoItem == [status |-> "pending", error |-> NoErr, progress |-> NoProgress,
           uploadedBytes |-> Undef, completedAt |-> Undef,
           reported |-> "none",   \* onItemComplete / onItemError was given the item
           progressCalls |-> 0]   \* calls of the onProgress processItem gave uplnk

CountStatus(W, st) == Cardinality({i \in 1..W.uploads : W.item[i].status = st})

RECURSIVE SumBytes(_, _)
SumBytes(W, i) ==
  IF i > W.uploads THEN 0
  ELSE (IF W.item[i].uploadedBytes = Undef THEN 0 ELSE W.item[i].uploadedBytes)
       + SumBytes(W, i + 1)

RECURSIVE TotalBytes(_, _)
TotalBytes(W, i) ==
  IF i > W.uploads THEN 0 ELSE opts[i].size + TotalBytes(W, i + 1)

\* (mutant) percent follows the bytes uploaded, not the items completed
BatchProgressByBytes(W) ==
  [total |-> W.uploads,
   completed |-> W.completed,
   failed |-> W.failed,
   pending |-> CountStatus(W, "pending"),
   uploading |-> CountStatus(W, "uploading"),
   percent |-> IF W.uploads > 0 THEN [num |-> SumBytes(W, 1) * 100, den |-> TotalBytes(W, 1)]
               ELSE [num |-> 0, den |-> 1],
   totalBytes |-> TotalBytes(W, 1),
   uploadedBytes |-> SumBytes(W, 1)]

\* percent is the ratio num/den (0 for an empty batch)
BatchProgress(W) ==
  [total |-> W.uploads,
   completed |-> W.completed,
   failed |-> W.failed,
   pending |-> CountStatus(W, "pending"),
   uploading |-> CountStatus(W, "uploading"),
   percent |-> IF W.uploads > 0 THEN [num |-> W.completed * 100, den |-> W.uploads]
               ELSE [num |-> 0, den |-> 1],
   totalBytes |-> TotalBytes(W, 1),
   uploadedBytes |-> SumBytes(W, 1)]

batchEmitProgress(W) ==
  IF ~bopts.onProgress THEN W
  ELSE UserCallback([W EXCEPT !.lastProgress = BatchProgress(W),
                              !.emits = [count |-> @.count + 1,
                                         first |-> IF @.count = 0 THEN BatchProgress(W)
                                                   ELSE @.first]])

\* the onProgress that processItem hands to uplnk
itemOnProgress(W, c, progress) ==
  batchEmitProgress([W EXCEPT !.item[c].progress = progress,
                              !.item[c].uploadedBytes = progress.loaded,
                              !.item[c].progressCalls = @ + 1])

----------------------------------------------------------------------------
\* doUpload: one attempt

\* a callback of attempt k is invoked: a standalone call's own callback, or,
\* for onProgress in a batch, the one processItem put in its place
Invoke(W, c, k, entry) ==
  LET W1 == Record(W, c, k, entry)
  IN  IF entry.cb = "onProgress" /\ W.pcBatch # "off"
      THEN itemOnProgress(W1, c, entry.p)
      ELSE UserCallback(W1)

finish(W, c, k, err) ==
  IF err.type # "none"
  THEN Settle(Invoke(W, c, k, CbError(err)), c, k, "rejected", err)
  ELSE Settle(Invoke(W, c, k, CbResponse), c, k, "resolved", NoErr)

handleError(W, c, k, err) == finish(W, c, k, err)

\* emitProgress: throttle, except for a 100% snapshot
emitProgress(W, c, k, progress, throttleMs) ==
  IF now - W.atts[c][k].lastEmitTime < throttleMs /\ progress.percent # 100 THEN W
  ELSE Invoke([W EXCEPT !.atts[c][k].lastEmitTime = now,
                        !.atts[c][k].nprogress = @ + 1], c, k, CbProgress(progress))

\* removeEventListener("abort", onAbort); clearTimeout(timeoutId)
Detach(a) ==
  [a EXCEPT !.listening = FALSE,
            !.timer = IF @ = "armed" THEN "cleared" ELSE @]

\* xhr.open(method, url, true)
xhrOpen(W, c, k) ==
  [W EXCEPT !.atts[c][k].xhr = "opened",
            !.atts[c][k].openAt = Len(W.atts[c][k].log)]

\* xhr.send(body)
xhrSend(W, c, k) ==
  [W EXCEPT !.atts[c][k].xhr = "sent",
            !.atts[c][k].sendAt = Len(W.atts[c][k].log)]

\* (mutant) onStart and the start snapshot come after xhr.send(body)
doUploadSendFirst(W, c) ==
  LET o == opts[c]
      k == Len(W.atts[c]) + 1
      W0 == [W EXCEPT !.atts[c] = Append(@, NewAttempt)]
  IN  IF ~o.url THEN Settle(W0, c, k, "rejected", UrlErr)
      ELSE IF W0.sig THEN handleError(W0, c, k, AbortErr)
      ELSE LET W1 == xhrOpen([W0 EXCEPT !.atts[c][k].listening = TRUE,
                                        !.atts[c][k].timer =
                                            IF o.timeoutMs > 0 THEN "armed" ELSE "none"],
                             c, k)
               W2 == Invoke(xhrSend(W1, c, k), c, k, CbStart)
           IN  IF o.emitOnStart
               THEN Invoke(W2, c, k, CbProgress(createProgress(0, o.size)))
               ELSE W2

\* (mutant) the signal?.aborted test before the listeners is missing
doUploadNoAbortedCheck(W, c) ==
  LET o == opts[c]
      k == Len(W.atts[c]) + 1
      W0 == [W EXCEPT !.atts[c] = Append(@, NewAttempt)]
  IN  IF ~o.url THEN Settle(W0, c, k, "rejected", UrlErr)
      ELSE LET W1 == xhrOpen([W0 EXCEPT !.atts[c][k].listening = TRUE,
                                        !.atts[c][k].timer =
                                            IF o.timeoutMs > 0 THEN "armed" ELSE "none"],
                             c, k)
               W2 == Invoke(W1, c, k, CbStart)
               W3 == IF o.emitOnStart
                     THEN Invoke(W2, c, k, CbProgress(createProgress(0, o.size)))
                     ELSE W2
           IN  xhrSend(W3, c, k)

\* the executor of doUpload(opts[c]): a new attempt of call c
doUpload(W, c) ==
  LET o == opts[c]
      k == Len(W.atts[c]) + 1
      W0 == [W EXCEPT !.atts[c] = Append(@, NewAttempt)]
  IN  IF ~o.url THEN Settle(W0, c, k, "rejected", UrlErr)
      ELSE IF W0.sig THEN handleError(W0, c, k, AbortErr)
      ELSE LET W1 == xhrOpen([W0 EXCEPT !.atts[c][k].listening = TRUE,
                                        !.atts[c][k].timer =
                                            IF o.timeoutMs > 0 THEN "armed" ELSE "none"],
                             c, k)
               W2 == Invoke(W1, c, k, CbStart)
               W3 == IF o.emitOnStart
                     THEN Invoke(W2, c, k, CbProgress(createProgress(0, o.size)))
                     ELSE W2
           IN  xhrSend(W3, c, k)

\* xhr.upload "progress" listener
onUploadProgress(W, c, k, loaded) ==
  LET o == opts[c]
      W1 == [W EXCEPT !.atts[c][k].loaded = loaded,
                      !.atts[c][k].events =
                          IF W.pcBatch = "off" THEN Append(@, loaded) ELSE @]
      progress == IF lengthComputable THEN createProgress(loaded, o.size)
                  ELSE createProgress(loaded, Undef)
  IN  emitProgress(W1, c, k, progress, o.throttleMs)

\* (mutant) the success range ends one status late: xhr.status <= 300
onLoadThrough300(W, c, k) ==
  LET o == opts[c]
      xhr == W.atts[c][k]
      W1 == [W EXCEPT !.atts[c][k] = Detach(@)]
  IN  IF xhr.status >= 200 /\ xhr.status <= 300
      THEN IF o.emitOnEnd
           THEN finish(Invoke(W1, c, k, CbProgress(createProgress(o.size, o.size))),
                       c, k, NoErr)
           ELSE finish(W1, c, k, NoErr)
      ELSE handleError(W1, c, k, [HttpErr(xhr.status) EXCEPT !.response = xhr.responseText])

\* (mutant) the completion snapshot takes the payload for no Blob: total = 0
onLoadSizeUnknown(W, c, k) ==
  LET o == opts[c]
      xhr == W.atts[c][k]
      W1 == [W EXCEPT !.atts[c][k] = Detach(@)]
  IN  IF xhr.status >= 200 /\ xhr.status < 300
      THEN IF o.emitOnEnd
           THEN finish(Invoke(W1, c, k, CbProgress(createProgress(0, 0))), c, k, NoErr)
           ELSE finish(W1, c, k, NoErr)
      ELSE handleError(W1, c, k, [HttpErr(xhr.status) EXCEPT !.response = xhr.responseText])

\* xhr "load" listener
onLoad(W, c, k) ==
  LET o == opts[c]
      xhr == W.atts[c][k]
      W1 == [W EXCEPT !.atts[c][k] = Detach(@)]
  IN  IF xhr.status >= 200 /\ xhr.status < 300
      THEN IF o.emitOnEnd
           THEN finish(Invoke(W1, c, k, CbProgress(createProgress(o.size, o.size))),
                       c, k, NoErr)
           ELSE finish(W1, c, k, NoErr)
      ELSE handleError(W1, c, k, [HttpErr(xhr.status) EXCEPT !.response = xhr.responseText])

\* xhr "error" listener
onError(W, c, k) ==
  handleError([W EXCEPT !.atts[c][k] = Detach(@)], c, k, NetworkErr)

\* the transport has the response: readyState DONE, status and text set
Respond(W, c, k, status, text) ==
  [W EXCEPT !.atts[c][k].xhr = "done",
            !.atts[c][k].status = status,
            !.atts[c][k].responseText = text]

\* the transport failed: readyState DONE, no response
Fail(W, c, k) == [W EXCEPT !.atts[c][k].xhr = "done"]

\* xhr "abort" listener
onXhrAbort(W, c, k) ==
  handleError([W EXCEPT !.atts[c][k] = Detach(@)], c, k, AbortErr)

\* xhr.abort(): ends the request; a request in flight gets an "abort" event,
\* dispatched synchronously, when the transport dispatches one at all
xhrAbort(W, c, k) ==
  LET inFlight == W.atts[c][k].xhr = "sent"
      W1 == [W EXCEPT !.atts[c][k].abortCalled = TRUE,
                      !.atts[c][k].xhr = IF inFlight THEN "done" ELSE @]
  IN  IF inFlight /\ xhrAbortEvents THEN onXhrAbort(W1, c, k) ELSE W1

\* the timeout timer's callback
onTimeout(W, c, k) ==
  handleError(xhrAbort([W EXCEPT !.atts[c][k].timer = "fired"], c, k), c, k, TimeoutErr)

----------------------------------------------------------------------------
\* uplnk(options): the retry loop

NewCall == [pc |-> "idle",       \* idle, attempt, delay, resolved, rejected
            attempt |-> 0,       \* the loop variable
            lastErr |-> NoErr,
            err |-> NoErr,       \* the rejection value of uplnk's promise
            asked |-> <<>>,      \* the attempt indices shouldRetry was called with
            askedErr |-> NoErr,  \* the error of the latest shouldRetry call
            waits |-> <<>>]      \* the delays handed to setTimeout

\* uplnk's promise settles; a processItem awaiting it is resumed
SettleCall(W, c, res, err) ==
  LET W1 == [W EXCEPT !.call[c].pc = res, !.call[c].err = err]
  IN  IF W.pcBatch # "off" THEN [W1 EXCEPT !.jobs = @ \cup {ItemJob(c)}] ELSE W1

\* the call uplnk(opts[c]), up to its first await
uplnk(W, c) ==
  LET retry == opts[c].retry
      W1 == [W EXCEPT !.call[c].pc = "attempt"]
  IN  IF retry = NoRetry THEN doUpload(W1, c)
      ELSE IF 0 < retry.attempts THEN doUpload(W1, c)
      ELSE SettleCall(W, c, "resolved", NoErr)

\* (mutant) the last-attempt test off by one: attempt === attempts
uplnkResumeOneMore(W, c) ==
  LET retry == opts[c].retry
      a == W.atts[c][Len(W.atts[c])]
      attempt == W.call[c].attempt
  IN  IF a.promise = "resolved" THEN SettleCall(W, c, "resolved", NoErr)
      ELSE IF retry = NoRetry THEN SettleCall(W, c, "rejected", a.err)
      ELSE LET W1 == [W EXCEPT !.call[c].lastErr = a.err]
           IN  IF attempt = retry.attempts
               THEN SettleCall(W1, c, "rejected", a.err)
               ELSE LET W2 == [W1 EXCEPT !.call[c].asked = Append(@, attempt),
                                         !.call[c].askedErr = a.err]
                    IN  IF ~ShouldRetry(retry.shouldRetry, a.err, attempt)
                        THEN SettleCall(W2, c, "rejected", a.err)
                        ELSE [W2 EXCEPT !.call[c].pc = "delay",
                                        !.call[c].waits =
                                            Append(@, TimerDelay(retry.delayMs))]

\* (mutant) the catch block calls shouldRetry before it tests the cap
uplnkResumeAsksFirst(W, c) ==
  LET retry == opts[c].retry
      a == W.atts[c][Len(W.atts[c])]
      attempt == W.call[c].attempt
  IN  IF a.promise = "resolved" THEN SettleCall(W, c, "resolved", NoErr)
      ELSE IF retry = NoRetry THEN SettleCall(W, c, "rejected", a.err)
      ELSE LET W2 == [W EXCEPT !.call[c].lastErr = a.err,
                               !.call[c].asked = Append(@, attempt),
                               !.call[c].askedErr = a.err]
           IN  IF ~ShouldRetry(retry.shouldRetry, a.err, attempt)
                  \/ attempt = retry.attempts - 1
               THEN SettleCall(W2, c, "rejected", a.err)
               ELSE [W2 EXCEPT !.call[c].pc = "delay",
                               !.call[c].waits = Append(@, TimerDelay(retry.delayMs))]

\* uplnk resumes after await doUpload(options)
uplnkResume(W, c) ==
  LET retry == opts[c].retry
      a == W.atts[c][Len(W.atts[c])]
      attempt == W.call[c].attempt
  IN  IF a.promise = "resolved" THEN SettleCall(W, c, "resolved", NoErr)
      ELSE IF retry = NoRetry THEN SettleCall(W, c, "rejected", a.err)
      ELSE LET W1 == [W EXCEPT !.call[c].lastErr = a.err]
           IN  IF attempt = retry.attempts - 1
               THEN SettleCall(W1, c, "rejected", a.err)
               ELSE LET W2 == [W1 EXCEPT !.call[c].asked = Append(@, attempt),
                                         !.call[c].askedErr = a.err]
                    IN  IF ~ShouldRetry(retry.shouldRetry, a.err, attempt)
                        THEN SettleCall(W2, c, "rejected", a.err)
                        ELSE [W2 EXCEPT !.call[c].pc = "delay",
                                        !.call[c].waits =
                                            Append(@, TimerDelay(retry.delayMs))]

\* an attempt that can act no more: its transport has ended, its timer is not
\* armed and its signal listener is gone or spent
Inert(W, a) == a.xhr # "sent" /\ a.timer # "armed" /\ (~a.listening \/ W.sig)

\* the closure of an inert attempt is garbage when its successor starts: only
\* that it was made, and how its promise settled, is kept
Retire(W, a) ==
  IF Inert(W, a)
  THEN [a EXCEPT !.log = <<>>, !.events = <<>>, !.progressAt = Undef, !.openAt = Undef,
                 !.sendAt = Undef, !.loaded = 0, !.nprogress = 0, !.lastEmitTime = 0,
                 !.startTime = 0, !.err = NoErr, !.timer = "none",
                 !.status = 0, !.responseText = "",
                 !.abortCalled = FALSE, !.listening = FALSE]
  ELSE a

\* the retry delay has passed: attempt++ and the next iteration of the loop
uplnkNext(W, c) ==
  LET retry == opts[c].retry
      attempt == W.call[c].attempt + 1
      W1 == [W EXCEPT !.call[c].attempt = attempt, !.call[c].pc = "attempt",
                      !.atts[c] = [k \in DOMAIN @ |-> Retire(W, @[k])]]
  IN  IF attempt < retry.attempts THEN doUpload(W1, c)
      ELSE IF W.call[c].lastErr # NoErr
           THEN SettleCall(W1, c, "rejected", W.call[c].lastErr)
           ELSE SettleCall(W1, c, "resolved", NoErr)

----------------------------------------------------------------------------
\* batchUpload

Remove(seq, x) == SelectSeq(seq, LAMBDA y : y # x)

\* the observer of a queue's transfers: the request of the queue item that
\* batch item i stands for is handed to uplnk
Transfer(W, i) ==
  IF W.q.made THEN [W EXCEPT !.q.transfers[W.q.scheduled[i]] = @ + 1] ELSE W

\* (mutant) processItem starts the transfer without marking the item
processItemUnmarked(W, i) ==
  IF W.aborted THEN [W EXCEPT !.jobs = @ \cup {ThenJob(i)}]
  ELSE uplnk(Transfer(batchEmitProgress([W EXCEPT !.item[i].uploadedBytes = 0]), i), i)

\* processItem(item), up to its await (or its early return)
processItem(W, i) ==
  IF W.aborted THEN [W EXCEPT !.jobs = @ \cup {ThenJob(i)}]
  ELSE uplnk(Transfer(batchEmitProgress([W EXCEPT !.item[i].status = "uploading",
                                                  !.item[i].uploadedBytes = 0]), i), i)

\* (mutant) the catch branch does not raise the abort flag on stopOnError
processItemResumeNoStop(W, i) ==
  LET W1 == IF W.call[i].pc = "resolved"
            THEN UserCallback(batchEmitProgress(
                   [W EXCEPT !.item[i].status = "completed",
                             !.item[i].completedAt = now,
                             !.item[i].uploadedBytes = opts[i].size,
                             !.item[i].reported = "onItemComplete",
                             !.completed = @ + 1]))
            ELSE UserCallback(batchEmitProgress(
                   [W EXCEPT !.item[i].status = "failed",
                             !.item[i].error = W.call[i].err,
                             !.item[i].completedAt = now,
                             !.item[i].reported = "onItemError",
                             !.failed = @ + 1]))
  IN  [W1 EXCEPT !.jobs = @ \cup {ThenJob(i)}]

\* (mutant) the catch branch swallows the failure: the item is left as it was
processItemResumeSwallow(W, i) ==
  LET W1 == IF W.call[i].pc = "resolved"
            THEN UserCallback(batchEmitProgress(
                   [W EXCEPT !.item[i].status = "completed",
                             !.item[i].completedAt = now,
                             !.item[i].uploadedBytes = opts[i].size,
                             !.item[i].reported = "onItemComplete",
                             !.completed = @ + 1]))
            ELSE IF bopts.stopOnError THEN [W EXCEPT !.aborted = TRUE] ELSE W
  IN  [W1 EXCEPT !.jobs = @ \cup {ThenJob(i)}]

\* processItem after await uplnk(...): the try branch or the catch branch;
\* then its promise resolves and the .then callback is queued
processItemResume(W, i) ==
  LET W1 == IF W.call[i].pc = "resolved"
            THEN UserCallback(batchEmitProgress(
                   [W EXCEPT !.item[i].status = "completed",
                             !.item[i].completedAt = now,
                             !.item[i].uploadedBytes = opts[i].size,
                             !.item[i].reported = "onItemComplete",
                             !.completed = @ + 1]))
            ELSE LET W2 == UserCallback(batchEmitProgress(
                             [W EXCEPT !.item[i].status = "failed",
                                       !.item[i].error = W.call[i].err,
                                       !.item[i].completedAt = now,
                                       !.item[i].reported = "onItemError",
                                       !.failed = @ + 1]))
                 IN  IF bopts.stopOnError THEN [W2 EXCEPT !.aborted = TRUE] ELSE W2
  IN  [W1 EXCEPT !.jobs = @ \cup {ThenJob(i)}]

\* (mutant) the limit test off by one: active.length <= concurrency
RECURSIVE FillActiveOffByOne(_)
FillActiveOffByOne(W) ==
  IF Len(W.active) <= bopts.concurrency /\ Len(W.queue) > 0
  THEN LET i == Head(W.queue)
           W1 == processItem([W EXCEPT !.queue = Tail(@)], i)
       IN  FillActiveOffByOne([W1 EXCEPT !.active = Append(@, i)])
  ELSE W

\* while (active.length < concurrency && queue.length > 0): dispatch the head
RECURSIVE FillActive(_)
FillActive(W) ==
  IF Len(W.active) < bopts.concurrency /\ Len(W.queue) > 0
  THEN LET i == Head(W.queue)
           W1 == processItem([W EXCEPT !.queue = Tail(@)], i)
       IN  FillActive([W1 EXCEPT !.active = Append(@, i)])
  ELSE W

\* (mutant) the loop's exit does not wait for the active transfers
awaitNone(W) == [W EXCEPT !.pcBatch = "all", !.jobs = @ \cup {ReturnJob}]

\* await Promise.all(active)
awaitAll(W) ==
  IF Len(W.active) = 0
  THEN [W EXCEPT !.pcBatch = "all", !.jobs = @ \cup {ReturnJob}]
  ELSE [W EXCEPT !.pcBatch = "all"]

\* the outer while loop, from its test to the next await
batchLoop(W) ==
  IF ~(Len(W.queue) > 0 \/ Len(W.active) > 0) THEN awaitAll(W)
  ELSE IF W.aborted THEN awaitAll(W)
  ELSE LET W1 == FillActive(W)
       IN  IF Len(W1.active) > 0 THEN [W1 EXCEPT !.pcBatch = "race"]
           ELSE [W1 EXCEPT !.pcBatch = "spin"]

\* the .then callback of a dispatched item: it leaves the active array, and
\* the promise that Promise.race / Promise.all waits for resolves
activeThen(W, i) ==
  LET W1 == [W EXCEPT !.active = Remove(@, i)]
  IN  IF W.pcBatch = "race" THEN [W1 EXCEPT !.jobs = @ \cup {LoopJob}]
      ELSE IF W.pcBatch = "all" /\ Len(W1.active) = 0
           THEN [W1 EXCEPT !.jobs = @ \cup {ReturnJob}]
           ELSE W1

\* (mutant) the result counts every settled item as successful
batchReturnAllSuccessful(W) ==
  [W EXCEPT !.batchListening = FALSE,
            !.pcBatch = "done",
            !.result = [successful |-> W.completed + W.failed, failed |-> W.failed,
                        aborted |-> W.aborted]]

\* the finally block and the return
batchReturn(W) ==
  [W EXCEPT !.batchListening = FALSE,
            !.pcBatch = "done",
            !.result = [successful |-> W.completed, failed |-> W.failed,
                        aborted |-> W.aborted]]

\* (mutant) batchUpload without the initial emitProgress()
batchUploadNoInitial(W) ==
  IF W.sig
  THEN [W EXCEPT !.pcBatch = "done",
                 !.result = [successful |-> 0, failed |-> 0, aborted |-> TRUE]]
  ELSE batchLoop([W EXCEPT !.batchListening = TRUE])

\* (mutant) batchUpload without the test of a signal already aborted
batchUploadIgnoresSignal(W) ==
  batchLoop(batchEmitProgress([W EXCEPT !.batchListening = TRUE]))

\* batchUpload(uploads, options), up to its first await
batchUpload(W) ==
  IF W.sig
  THEN [W EXCEPT !.pcBatch = "done",
                 !.result = [successful |-> 0, failed |-> 0, aborted |-> TRUE]]
  ELSE batchLoop(batchEmitProgress([W EXCEPT !.batchListening = TRUE]))

----------------------------------------------------------------------------
\* createUploadQueue

NoBatchProgress ==
  [total |-> Undef, completed |-> Undef, failed |-> Undef, pending |-> Undef,
   uploading |-> Undef, percent |-> [num |-> 0, den |-> 1], totalBytes |-> Undef,
   uploadedBytes |-> Undef]

\* the batch onProgress has not been called
NoEmits == [count |-> 0, first |-> NoBatchProgress]

\* no BatchUploadResult yet
NoResult == [successful |-> Undef, failed |-> Undef, aborted |-> FALSE]

\* add(uploadOptions)
add(W) ==
  [W EXCEPT !.q.items = Append(@, [id |-> W.q.added + 1, status |-> "pending"]),
            !.q.added = @ + 1]

IsPending(it) == it.status = "pending"

IsTerminal(it) == it.status = "completed" \/ it.status = "failed"

Ids(its) == [n \in 1..Len(its) |-> its[n].id]

\* the closure of a new batchUpload(pendingItems.map(...), {...}) call
NewBatch(W, pendingItems) ==
  [W EXCEPT !.atts = [c \in Calls |-> <<>>],
            !.call = [c \in Calls |-> NewCall],
            !.item = [c \in Calls |-> NoItem],
            !.completed = 0,
            !.failed = 0,
            !.aborted = FALSE,
            !.batchListening = FALSE,
            !.queue = [i \in 1..Len(pendingItems) |-> i],
            !.active = <<>>,
            !.result = NoResult,
            !.emits = NoEmits,
            !.pcBatch = "init",
            !.uploads = Len(pendingItems),
            !.q.scheduled = Ids(pendingItems),
            !.q.starts = @ + 1,
            !.q.currentBatch = "promise"]

\* batchUpload's promise has settled: the .finally callback is queued
batchSettled(W) ==
  IF W.q.made /\ W.pcBatch = "done" THEN [W EXCEPT !.jobs = @ \cup {FinallyJob}] ELSE W

\* (mutant) start() without the isRunning test
startAlways(W) ==
  LET pendingItems == SelectSeq(W.q.items, IsPending)
      W1 == [W EXCEPT !.q.isRunning = TRUE]
  IN  IF Len(pendingItems) = 0 THEN W1
      ELSE batchSettled(batchUpload(NewBatch(W1, pendingItems)))

\* start()
start(W) ==
  LET pendingItems == SelectSeq(W.q.items, IsPending)
      W1 == [W EXCEPT !.q.isRunning = TRUE]
  IN  IF W.q.isRunning THEN W
      ELSE IF Len(pendingItems) = 0 THEN W1
      ELSE batchSettled(batchUpload(NewBatch(W1, pendingItems)))

\* the .finally callback of start(); the promise currentBatch held resolves
finallyCallback(W) ==
  LET W1 == [W EXCEPT !.q.isRunning = FALSE, !.q.currentBatch = "null"]
  IN  IF W.q.waitPc = "pending" THEN [W1 EXCEPT !.jobs = @ \cup {WaitJob}] ELSE W1

CountItems(its, st) == Cardinality({n \in 1..Len(its) : its[n].status = st})

\* (mutant) waitForCompletion() answers from the item list without waiting
waitForCompletionNoWait(W) ==
  LET W1 == IF ~W.q.isRunning THEN start(W) ELSE W
  IN  [W1 EXCEPT !.q.waitPc = "resolved",
                 !.q.waitResult =
                     [successful |-> CountItems(W1.q.items, "completed"),
                      failed |-> CountItems(W1.q.items, "failed"),
                      aborted |-> FALSE]]

\* waitForCompletion()
waitForCompletion(W) ==
  LET W1 == IF ~W.q.isRunning THEN start(W) ELSE W
  IN  IF W1.q.currentBatch = "null"
      THEN [W1 EXCEPT !.q.waitPc = "resolved",
                      !.q.waitResult =
                          [successful |-> CountItems(W1.q.items, "completed"),
                           failed |-> CountItems(W1.q.items, "failed"),
                           aborted |-> FALSE]]
      ELSE [W1 EXCEPT !.q.waitPc = "pending"]

\* the promise waitForCompletion() returned resolves with the batch's result
waitResume(W) ==
  [W EXCEPT !.q.waitPc = "resolved", !.q.waitResult = W.result]

getStatus(W) ==
  [total |-> Len(W.q.items),
   pending |-> CountItems(W.q.items, "pending"),
   uploading |-> CountItems(W.q.items, "uploading"),
   completed |-> CountItems(W.q.items, "completed"),
   failed |-> CountItems(W.q.items, "failed"),
   isRunning |-> W.q.isRunning]

getItems(W) == W.q.items

\* items.splice(index, 1), with 0-based index
Splice(its, index) ==
  [n \in 1..(Len(its) - 1) |-> IF n <= index THEN its[n] ELSE its[n + 1]]

\* the 0-based indices of the terminal items, ascending
IndicesToRemove(its) ==
  LET Terminals == {n \in 1..Len(its) : IsTerminal(its[n])}
      Nth[m \in 0..Cardinality(Terminals)] ==
        IF m = 0 THEN 0
        ELSE CHOOSE n \in Terminals :
               Cardinality({t \in Terminals : t < n}) = m - 1
  IN  [m \in 1..Cardinality(Terminals) |-> Nth[m] - 1]

Reverse(seq) == [n \in 1..Len(seq) |-> seq[Len(seq) + 1 - n]]

\* indices.forEach((index) => items.splice(index, 1))
RECURSIVE SpliceEach(_, _)
SpliceEach(its, indices) ==
  IF indices = <<>> THEN its
  ELSE SpliceEach(Splice(its, Head(indices)), Tail(indices))

\* (mutant) clear() splices in ascending order: the indices go stale
clearForward(W) ==
  [W EXCEPT !.q.items = SpliceEach(@, IndicesToRemove(@))]

\* clear()
clear(W) ==
  [W EXCEPT !.q.items = SpliceEach(@, Reverse(IndicesToRemove(@)))]

----------------------------------------------------------------------------
\* validators: strings that are taken apart are sequences of characters

Null == [type |-> "null"]

validateSize(file, options) ==
  IF options.maxSize # Undef /\ file.size > options.maxSize
  THEN [type |-> "size-too-large", maxSize |-> options.maxSize, actualSize |-> file.size]
  ELSE IF options.minSize # Undef /\ file.size < options.minSize
  THEN [type |-> "size-too-small", minSize |-> options.minSize, actualSize |-> file.size]
  ELSE Null

\* filename.lastIndexOf("."), 0-based, -1 when there is none
LastDotIndex(filename) ==
  LET dots == {n \in 1..Len(filename) : filename[n] = "."}
  IN  IF dots = {} THEN -1 ELSE (CHOOSE n \in dots : \A m \in dots : m <= n) - 1

getFileExtension(filename) ==
  LET lastDotIndex == LastDotIndex(filename)
  IN  IF lastDotIndex = -1 \/ lastDotIndex = 0 THEN <<>>
      ELSE SubSeq(filename, lastDotIndex + 1, Len(filename))

\* String.prototype.toLowerCase over the characters in use
toLowerCase(str) ==
  [n \in 1..Len(str) |-> IF str[n] = "P" THEN "p" ELSE str[n]]

\* ext.toLowerCase().startsWith(".") ? ext.toLowerCase() : `.${ext.toLowerCase()}`
NormalizeExtension(ext) ==
  IF Len(ext) > 0 /\ toLowerCase(ext)[1] = "." THEN toLowerCase(ext)
  ELSE <<".">> \o toLowerCase(ext)

Includes(list, x) == \E n \in 1..Len(list) : list[n] = x

validateType(file, options) ==
  IF Len(options.allowedTypes) > 0 /\ ~Includes(options.allowedTypes, file.type)
  THEN [type |-> "invalid-type", allowedTypes |-> options.allowedTypes,
        actualType |-> file.type]
  ELSE IF Len(options.allowedExtensions) > 0 /\ file.isFile
  THEN LET extension == getFileExtension(file.name)
           normalizedAllowed ==
             [n \in 1..Len(options.allowedExtensions) |->
                NormalizeExtension(options.allowedExtensions[n])]
           normalizedActual == toLowerCase(extension)
       IN  IF ~Includes(normalizedAllowed, normalizedActual)
           THEN [type |-> "invalid-type", allowedTypes |-> options.allowedExtensions,
                 actualType |-> extension]
           ELSE Null
  ELSE Null

\* options.customValidator(file): one that accepts every file or rejects every
CustomValidator(customValidator, file) ==
  IF customValidator = "reject" THEN [type |-> "custom", message |-> "rejected"]
  ELSE Null

\* (mutant) validateFile checks the type before the size
validateFileTypeFirst(file, options) ==
  LET sizeError == validateSize(file, options)
      typeError == validateType(file, options)
      customError == CustomValidator(options.customValidator, file)
  IN  IF typeError.type # "null"
      THEN [error |-> typeError, evaluated |-> <<"validateType">>]
      ELSE IF sizeError.type # "null"
      THEN [error |-> sizeError, evaluated |-> <<"validateType", "validateSize">>]
      ELSE IF options.customValidator # "none"
      THEN [error |-> customError,
            evaluated |-> <<"validateType", "validateSize", "customValidator">>]
      ELSE [error |-> Null, evaluated |-> <<"validateType", "validateSize">>]

\* validateFile(file, options): what it returns and the checks it evaluated
validateFile(file, options) ==
  LET sizeError == validateSize(file, options)
      typeError == validateType(file, options)
      customError == CustomValidator(options.customValidator, file)
  IN  IF sizeError.type # "null"
      THEN [error |-> sizeError, evaluated |-> <<"validateSize">>]
      ELSE IF typeError.type # "null"
      THEN [error |-> typeError, evaluated |-> <<"validateSize", "validateType">>]
      ELSE IF options.customValidator # "none"
      THEN [error |-> customError,
            evaluated |-> <<"validateSize", "validateType", "customValidator">>]
      ELSE [error |-> Null, evaluated |-> <<"validateSize", "validateType">>]

----------------------------------------------------------------------------
\* The state machine

World ==
  [atts |-> atts, call |-> call, sig |-> signalAborted, jobs |-> jobs, fuse |-> 0,
   pcBatch |-> pcBatch, item |-> item, completed |-> completed, failed |-> failed,
   aborted |-> aborted, batchListening |-> batchListening, queue |-> queue,
   active |-> active, lastProgress |-> lastProgress, emits |-> emits,
   result |-> result, uploads |-> uploads, q |-> q]

Commit(W) ==
  /\ atts' = W.atts
  /\ call' = W.call
  /\ signalAborted' = W.sig
  /\ jobs' = W.jobs
  /\ pcBatch' = W.pcBatch
  /\ item' = W.item
  /\ completed' = W.completed
  /\ failed' = W.failed
  /\ aborted' = W.aborted
  /\ batchListening' = W.batchListening
  /\ queue' = W.queue
  /\ active' = W.active
  /\ lastProgress' = W.lastProgress
  /\ emits' = W.emits
  /\ result' = W.result
  /\ uploads' = W.uploads
  /\ q' = W.q
  /\ UNCHANGED <<now, xhrAbortEvents, lengthComputable, opts, bopts, args, ret>>

\* which user callback of the next handler calls controller.abort() (0: none)
Fuses == IF signalAborted THEN {0} ELSE 0..MaxFuse

Armed(f) == [World EXCEPT !.fuse = f]

Take(job, f) == [World EXCEPT !.fuse = f, !.jobs = @ \ {job}]

\* a macrotask starts only when no promise reaction is pending
Idle == jobs = {} /\ pcBatch # "spin"

DefaultOptions ==
  [url |-> TRUE, size |-> PayloadSize, timeoutMs |-> 0,
   throttleMs |-> DEFAULT_THROTTLE_MS, emitOnStart |-> TRUE, emitOnEnd |-> TRUE,
   retry |-> NoRetry]

\* with attempts = 1 no policy is ever consulted: one of them stands for all;
\* attempts is any number: customRetry passes on what it is given
RetryPolicies ==
  {NoRetry, fixedDelay(1)} \cup
  {customRetry(n, "always", "none") : n \in {-1, 0}} \cup
  UNION {{exponentialBackoff(n), fixedDelay(n), networkErrorsOnly(n),
          customRetry(n, "always", "linear"), customRetry(n, "never", "none")} :
           n \in 2..MaxAttempts}

DefaultProgress ==
  [throttleMs |-> DEFAULT_THROTTLE_MS, emitOnStart |-> TRUE, emitOnEnd |-> TRUE]

ProgressConfigs ==
  {DefaultProgress, [throttleMs |-> 0, emitOnStart |-> FALSE, emitOnEnd |-> FALSE]}

Options(u, t, g, r) ==
  [url |-> u, size |-> PayloadSize, timeoutMs |-> t, throttleMs |-> g.throttleMs,
   emitOnStart |-> g.emitOnStart, emitOnEnd |-> g.emitOnEnd, retry |-> r]

\* every progress configuration without retry, every retry policy with the
\* default progress configuration
UploadOptions ==
  {Options(u, t, g, NoRetry) : u \in BOOLEAN, t \in {0, TimeoutMs}, g \in ProgressConfigs}
  \cup {Options(u, t, DefaultProgress, r) :
          u \in BOOLEAN, t \in {0, TimeoutMs}, r \in RetryPolicies}

BatchItemOptions == {DefaultOptions}

BatchOptions ==
  [concurrency : 1..MaxConcurrency, stopOnError : BOOLEAN, onProgress : {TRUE}]

NoBatchOptions == [concurrency |-> 3, stopOnError |-> FALSE, onProgress |-> FALSE]

\* no createUploadQueue closure
NoQueue ==
  [made |-> FALSE,
   items |-> <<>>,            \* items: each its id and status
   isRunning |-> FALSE,
   currentBatch |-> "null",   \* null, or the promise of the batch in flight
   added |-> 0,               \* add() calls so far
   scheduled |-> <<>>,        \* the ids of the items handed to batchUpload last
   starts |-> 0,              \* batchUpload calls made by start()
   transfers |-> [id \in 1..MaxAdds |-> 0],   \* uplnk calls made for each item
   waitPc |-> "none",         \* the latest waitForCompletion(): none, pending, resolved
   waitResult |-> [successful |-> Undef, failed |-> Undef, aborted |-> FALSE]]

NoFile == [size |-> 0, type |-> "", isFile |-> FALSE, name |-> <<>>]

NoValidation ==
  [maxSize |-> Undef, minSize |-> Undef, allowedTypes |-> <<>>,
   allowedExtensions |-> <<>>, customValidator |-> "none"]

\* no call of a library function
NoArgs ==
  [fn |-> "none", policy |-> "none", retryableStatuses |-> {}, err |-> NoErr,
   attempt |-> 0, baseDelayMs |-> 0, maxDelayMs |-> 0, jitter |-> FALSE,
   file |-> NoFile, options |-> NoValidation]

NoRet ==
  [done |-> FALSE, shouldRetry |-> FALSE, delay |-> [num |-> 0, den |-> 1],
   error |-> Null, evaluated |-> <<>>]

InitCommon ==
  /\ now = Epoch
  /\ signalAborted = FALSE
  /\ atts = [c \in Calls |-> <<>>]
  /\ call = [c \in Calls |-> NewCall]
  /\ jobs = {}
  /\ item = [c \in Calls |-> NoItem]
  /\ completed = 0
  /\ failed = 0
  /\ aborted = FALSE
  /\ batchListening = FALSE
  /\ active = <<>>
  /\ lastProgress = NoBatchProgress
  /\ emits = NoEmits
  /\ result = NoResult
  /\ ret = NoRet

\* a caller about to invoke uplnk(options) once
InitUpload ==
  /\ InitCommon
  /\ args = NoArgs
  /\ opts \in {[c \in Calls |-> IF c = 1 THEN o ELSE DefaultOptions] : o \in UploadOptions}
  /\ xhrAbortEvents \in (IF opts[1].timeoutMs > 0 THEN BOOLEAN ELSE {TRUE})
  /\ lengthComputable \in (IF opts[1].url THEN BOOLEAN ELSE {TRUE})
  /\ bopts = NoBatchOptions
  /\ pcBatch = "off"
  /\ queue = <<>>
  /\ uploads = 0
  /\ q = NoQueue

\* a caller about to invoke batchUpload(uploads, options)
Init ==
  /\ InitCommon
  /\ args = NoArgs
  /\ xhrAbortEvents = TRUE
  /\ lengthComputable = TRUE
  /\ opts \in [Calls -> BatchItemOptions]
  /\ bopts \in BatchOptions
  /\ pcBatch = "init"
  /\ uploads = MaxCalls
  /\ queue = [i \in 1..uploads |-> i]
  /\ q = NoQueue

\* time passes while something is under way
Tick ==
  /\ Idle
  /\ now < Epoch + MaxTicks * TickMs
  /\ \E c \in Calls :
       \/ call[c].pc = "delay"
       \/ \E k \in 1..Len(atts[c]) : atts[c][k].xhr = "sent" \/ atts[c][k].timer = "armed"
  /\ now' = now + TickMs
  /\ UNCHANGED <<xhrAbortEvents, lengthComputable, opts, signalAborted, atts, call, jobs, bopts, pcBatch,
                 item, completed, failed, aborted, batchListening, queue, active,
                 lastProgress, emits, result, uploads, q, args, ret>>

\* controller.abort() called from outside the library's callbacks
FireSignal ==
  /\ Idle
  /\ ~signalAborted
  /\ Commit(dispatchAbort(World))

\* the caller invokes uplnk(opts[1])
UplnkCall ==
  /\ Idle
  /\ pcBatch = "off"
  /\ call[1].pc = "idle"
  /\ \E f \in Fuses : Commit(uplnk(Armed(f), 1))

\* what the transport may report
ProgressPoints(size) ==
  IF pcBatch = "off" THEN {size \div 4, size \div 2, size} ELSE {size \div 2}

\* how many progress events the transport of an attempt of call c reports:
\* several are followed for a call without retry only
ProgressLimit(c) == IF opts[c].retry = NoRetry THEN MaxProgress ELSE 1

LoadStatuses == IF pcBatch = "off" THEN Statuses ELSE {200, 503}

\* the response text is followed for a standalone call without retry only
LoadTexts(c) ==
  IF pcBatch = "off" /\ opts[c].retry = NoRetry THEN ResponseTexts ELSE {""}

\* a transport left in flight by a queue's batch that has returned (the signal
\* fired) reports to that batch's closure only, which nothing holds any more:
\* its events are not followed
Watched == ~(q.made /\ pcBatch = "done")

XhrProgress(c, k) ==
  /\ Idle
  /\ Watched
  /\ atts[c][k].xhr = "sent"
  /\ atts[c][k].nprogress < ProgressLimit(c)
  /\ Len(atts[c][k].events) < ProgressLimit(c)
  /\ \E loaded \in {l \in ProgressPoints(opts[c].size) : l >= atts[c][k].loaded},
        f \in Fuses :
       Commit(onUploadProgress(Armed(f), c, k, loaded))

XhrLoad(c, k) ==
  /\ Idle
  /\ Watched
  /\ atts[c][k].xhr = "sent"
  /\ \E status \in LoadStatuses, text \in LoadTexts(c), f \in Fuses :
       Commit(onLoad(Respond(Armed(f), c, k, status, text), c, k))

XhrError(c, k) ==
  /\ Idle
  /\ Watched
  /\ atts[c][k].xhr = "sent"
  /\ \E f \in Fuses : Commit(onError(Fail(Armed(f), c, k), c, k))

Timeout(c, k) ==
  /\ Idle
  /\ atts[c][k].timer = "armed"
  /\ now - atts[c][k].startTime >= opts[c].timeoutMs
  /\ \E f \in Fuses : Commit(onTimeout(Armed(f), c, k))

\* the timer of the retry delay
RetryTimer(c) ==
  /\ Idle
  /\ call[c].pc = "delay"
  /\ \E f \in Fuses : Commit(uplnkNext(Armed(f), c))

RunUplnkJob(c) ==
  /\ UplnkJob(c) \in jobs
  /\ Commit(uplnkResume(Take(UplnkJob(c), 0), c))

RunItemJob(c) ==
  /\ ItemJob(c) \in jobs
  /\ \E f \in Fuses : Commit(processItemResume(Take(ItemJob(c), f), c))

RunThenJob(c) ==
  /\ ThenJob(c) \in jobs
  /\ Commit(activeThen(Take(ThenJob(c), 0), c))

RunLoopJob ==
  /\ LoopJob \in jobs
  /\ \E f \in Fuses : Commit(batchLoop(Take(LoopJob, f)))

RunReturnJob ==
  /\ ReturnJob \in jobs
  /\ Commit(batchSettled(batchReturn(Take(ReturnJob, 0))))

\* the caller invokes batchUpload(uploads, bopts)
BatchCall ==
  /\ Idle
  /\ pcBatch = "init"
  /\ \E f \in Fuses : Commit(batchUpload(Armed(f)))

NextUpload ==
  \/ Tick
  \/ FireSignal
  \/ UplnkCall
  \/ \E c \in Calls : \E k \in 1..Len(atts[c]) : XhrProgress(c, k)
  \/ \E c \in Calls : \E k \in 1..Len(atts[c]) : XhrLoad(c, k)
  \/ \E c \in Calls : \E k \in 1..Len(atts[c]) : XhrError(c, k)
  \/ \E c \in Calls : \E k \in 1..Len(atts[c]) : Timeout(c, k)
  \/ \E c \in Calls : RetryTimer(c)
  \/ \E c \in Calls : RunUplnkJob(c)

\* the items of a batch carry no timeoutMs and no retry policy here: no timer
Next ==
  \/ FireSignal
  \/ BatchCall
  \/ \E c \in Calls : \E k \in 1..Len(atts[c]) : XhrProgress(c, k)
  \/ \E c \in Calls : \E k \in 1..Len(atts[c]) : XhrLoad(c, k)
  \/ \E c \in Calls : \E k \in 1..Len(atts[c]) : XhrError(c, k)
  \/ \E c \in Calls : RunUplnkJob(c)
  \/ \E c \in Calls : RunItemJob(c)
  \/ \E c \in Calls : RunThenJob(c)
  \/ RunLoopJob
  \/ RunReturnJob

\* a caller holding a queue made by createUploadQueue(options)
InitQueue ==
  /\ InitCommon
  /\ args = NoArgs
  /\ xhrAbortEvents = TRUE
  /\ lengthComputable = TRUE
  /\ opts \in [Calls -> BatchItemOptions]
  /\ bopts \in [concurrency : 1..MaxConcurrency, stopOnError : {FALSE}, onProgress : {TRUE}]
  /\ pcBatch = "none"
  /\ uploads = 0
  /\ queue = <<>>
  /\ q = [NoQueue EXCEPT !.made = TRUE]

\* the caller makes its next call on the queue: the result its last
\* waitForCompletion() resolved with has been taken
Caller(f) ==
  IF q.waitPc = "resolved"
  THEN [World EXCEPT !.fuse = f, !.q.waitPc = "none", !.q.waitResult = NoQueue.waitResult]
  ELSE Armed(f)

QueueAdd ==
  /\ Idle
  /\ q.added < MaxAdds
  /\ Commit(add(Caller(0)))

QueueStart ==
  /\ Idle
  /\ q.starts < MaxStarts
  /\ \E f \in Fuses : Commit(start(Caller(f)))

QueueWait ==
  /\ Idle
  /\ q.starts < MaxStarts
  /\ q.waitPc # "pending"
  /\ \E f \in Fuses : Commit(waitForCompletion(Caller(f)))

QueueAbort ==
  /\ Idle
  /\ ~signalAborted \/ q.isRunning
  /\ Commit(abort(Caller(0)))

QueueClear ==
  /\ Idle
  /\ Commit(clear(Caller(0)))

RunFinallyJob ==
  /\ FinallyJob \in jobs
  /\ Commit(finallyCallback(Take(FinallyJob, 0)))

RunWaitJob ==
  /\ WaitJob \in jobs
  /\ Commit(waitResume(Take(WaitJob, 0)))

NextQueue ==
  \/ QueueAdd
  \/ QueueStart
  \/ QueueWait
  \/ QueueAbort
  \/ QueueClear
  \/ \E c \in Calls : \E k \in 1..Len(atts[c]) : XhrProgress(c, k)
  \/ \E c \in Calls : \E k \in 1..Len(atts[c]) : XhrLoad(c, k)
  \/ \E c \in Calls : \E k \in 1..Len(atts[c]) : XhrError(c, k)
  \/ \E c \in Calls : RunUplnkJob(c)
  \/ \E c \in Calls : RunItemJob(c)
  \/ \E c \in Calls : RunThenJob(c)
  \/ RunLoopJob
  \/ RunReturnJob
  \/ RunFinallyJob
  \/ RunWaitJob

SpecUpload == InitUpload /\ [][NextUpload]_vars

SpecQueue == InitQueue /\ [][NextQueue]_vars

ItemStatuses == {"pending", "uploading", "completed", "failed"}

\* the lists of BatchUploadItem a queue's clear() may find: getItems() hands
\* the item objects themselves to the caller, status and all
ItemLists ==
  UNION {[1..n -> [id : 1..MaxCalls, status : ItemStatuses]] : n \in 0..MaxCalls}

\* a queue after add() was called some times: the items in the order added,
\* each in any status
InitClear ==
  /\ InitCommon
  /\ args = NoArgs
  /\ xhrAbortEvents = TRUE
  /\ lengthComputable = TRUE
  /\ opts \in [Calls -> BatchItemOptions]
  /\ bopts = NoBatchOptions
  /\ pcBatch = "none"
  /\ uploads = 0
  /\ queue = <<>>
  /\ \E its \in ItemLists :
       /\ \A n \in 1..Len(its) : its[n].id = n
       /\ q = [NoQueue EXCEPT !.made = TRUE, !.items = its, !.added = Len(its)]

NextClear ==
  \/ QueueAdd
  \/ QueueClear

SpecClear == InitClear /\ [][NextClear]_vars

Spec == Init /\ [][Next]_vars

\* a caller about to invoke batchUpload with any list of requests and any
\* number as the concurrency limit
InitAnyBatch ==
  /\ InitCommon
  /\ args = NoArgs
  /\ xhrAbortEvents = TRUE
  /\ lengthComputable = TRUE
  /\ opts \in [Calls -> BatchItemOptions]
  /\ bopts \in [concurrency : -1..MaxConcurrency, stopOnError : BOOLEAN, onProgress : {TRUE}]
  /\ pcBatch = "init"
  /\ uploads \in 0..MaxCalls
  /\ queue = [i \in 1..uploads |-> i]
  /\ q = NoQueue

SpecAnyBatch == InitAnyBatch /\ [][Next]_vars

\* the errors a retry predicate is asked about
UploadErrors ==
  {AbortErr, NetworkErr, TimeoutErr} \cup
  {HttpErr(status) : status \in RetryableStatuses \cup Statuses \cup {404}}

ShouldRetryCalls ==
  {[NoArgs EXCEPT !.fn = "shouldRetry", !.policy = policy,
                  !.retryableStatuses = statuses, !.err = err, !.attempt = attempt] :
     policy \in {"exponentialBackoff", "fixedDelay", "networkErrorsOnly"},
     statuses \in {RetryableStatuses, {404, 503}},
     err \in UploadErrors,
     attempt \in 0..MaxAttempts}

BackoffCalls ==
  {[NoArgs EXCEPT !.fn = "calculateBackoffDelay", !.attempt = attempt,
                  !.baseDelayMs = base, !.maxDelayMs = max, !.jitter = jitter] :
     attempt \in 0..MaxBackoff,
     base \in {1, BaseDelayMs},
     max \in {BaseDelayMs * 3, MaxDelayMs},
     jitter \in BOOLEAN}

Files ==
  [size : {0, PayloadSize, PayloadSize * 2},
   type : {"image/png", "text/plain"},
   isFile : BOOLEAN,
   name : {<<"a">>, <<"a", ".", "p">>, <<"a", ".", "P">>, <<".", "p">>}]

ValidationOptions ==
  [maxSize : {Undef, PayloadSize},
   minSize : {Undef, PayloadSize},
   allowedTypes : {<<>>, <<"image/png">>},
   allowedExtensions : {<<>>, <<<<"P">>>>, <<<<".", "p">>>>},
   customValidator : {"none", "accept", "reject"}]

ValidateFileCalls ==
  {[NoArgs EXCEPT !.fn = "validateFile", !.file = file, !.options = options] :
     file \in Files, options \in ValidationOptions}

\* a caller about to call one of the library's pure functions
InitLib ==
  /\ InitCommon
  /\ xhrAbortEvents = TRUE
  /\ lengthComputable = TRUE
  /\ opts \in [Calls -> BatchItemOptions]
  /\ bopts = NoBatchOptions
  /\ pcBatch = "none"
  /\ uploads = 0
  /\ queue = <<>>
  /\ q = NoQueue
  /\ args \in ShouldRetryCalls \cup BackoffCalls \cup ValidateFileCalls

Return(value) ==
  /\ ~ret.done
  /\ ret' = value
  /\ UNCHANGED <<now, xhrAbortEvents, lengthComputable, opts, signalAborted, atts, call,
                 jobs, bopts, pcBatch, item, completed, failed, aborted, batchListening,
                 queue, active, lastProgress, emits, result, uploads, q, args>>

\* policy.shouldRetry(err, attempt)
CallShouldRetry ==
  /\ args.fn = "shouldRetry"
  /\ Return([NoRet EXCEPT !.done = TRUE,
                          !.shouldRetry =
                             CASE args.policy = "exponentialBackoff" ->
                                    exponentialBackoffShouldRetry(
                                      args.retryableStatuses, args.err, args.attempt)
                               [] args.policy = "fixedDelay" ->
                                    fixedDelayShouldRetry(args.retryableStatuses, args.err)
                               [] OTHER -> networkErrorsOnlyShouldRetry(args.err)])

CallBackoff ==
  /\ args.fn = "calculateBackoffDelay"
  /\ \E random \in Randoms :
       Return([NoRet EXCEPT !.done = TRUE,
                            !.delay = calculateBackoffDelay(
                                        args.attempt, args.baseDelayMs, args.maxDelayMs,
                                        args.jitter, random)])

CallValidateFile ==
  /\ args.fn = "validateFile"
  /\ LET r == validateFile(args.file, args.options)
     IN  Return([NoRet EXCEPT !.done = TRUE, !.error = r.error,
                              !.evaluated = r.evaluated])

NextLib ==
  \/ CallShouldRetry
  \/ CallBackoff
  \/ CallValidateFile

SpecLib == InitLib /\ [][NextLib]_vars

----------------------------------------------------------------------------
\* Properties

Attempts == {<<c, k>> \in Calls \X (1..MaxAttempts + 1) : k <= Len(atts[c])}

Att(ck) == atts[ck[1]][ck[2]]

Count(log, cbs) == Cardinality({n \in DOMAIN log : log[n].cb \in cbs})

Uploading == {i \in Calls : item[i].status = "uploading"}

\* C1: during batchUpload the number of items whose status is "uploading"
\* never exceeds the concurrency limit.
C1_UploadingAtMostConcurrency ==
  pcBatch # "off" => Cardinality(Uploading) <= bopts.concurrency

\* the limit is reached while items are still waiting
C1_Witness ==
  /\ bopts.concurrency = 2
  /\ Cardinality(Uploading) = 2
  /\ Len(queue) > 0

\* (mutant of FillActive: FillActiveOffByOne)

Terminal == {"onResponse", "onError"}

\* C2: in every transfer attempt with a non-empty url exactly one of
\* onResponse / onError is invoked, exactly once: never two terminal
\* callbacks, and one of them by the time the attempt's promise has settled.
C2_ExactlyOneTerminalCallback ==
  \A ck \in Attempts :
    opts[ck[1]].url /\ pcBatch = "off" /\ Att(ck).xhr # "unsent" =>
      /\ Count(Att(ck).log, Terminal) <= 1
      /\ Att(ck).promise # "pending" => Count(Att(ck).log, Terminal) = 1

\* C3: when the timeout timer fires on an attempt (the signal not having
\* fired), the transport is aborted, the attempt rejects with {type: "timeout"},
\* onError receives {type: "timeout"} and onResponse is never invoked.
C3_TimerGivesTimeout ==
  \A ck \in Attempts :
    pcBatch = "off" /\ Att(ck).timer = "fired" /\ ~signalAborted =>
      /\ Att(ck).abortCalled
      /\ Att(ck).promise = "rejected"
      /\ Att(ck).err = TimeoutErr
      /\ \A n \in DOMAIN Att(ck).log :
           /\ Att(ck).log[n].cb # "onResponse"
           /\ Att(ck).log[n].cb = "onError" => Att(ck).log[n].err = TimeoutErr

\* C4: when the signal fires while an attempt is in flight (sent, no terminal
\* transport event yet), the transport's abort is invoked and the attempt
\* rejects with {type: "abort"}.
C4_SignalAbortsTransport ==
  [][\A ck \in Attempts :
       /\ ~signalAborted /\ signalAborted'
       /\ Att(ck).xhr = "sent" /\ Att(ck).promise = "pending" /\ Att(ck).listening
       => /\ atts'[ck[1]][ck[2]].promise = "rejected"
          /\ atts'[ck[1]][ck[2]].err = AbortErr
          /\ atts'[ck[1]][ck[2]].abortCalled]_vars

\* C5: an attempt started when the signal is already signalled rejects with
\* {type: "abort"} and does no network I/O: the transport is never opened or
\* sent, no listener or timer is set up, and neither onStart nor onProgress
\* is invoked, then or later.
C5_AlreadyAbortedDoesNothing ==
  /\ [][\A c \in Calls :
          signalAborted /\ opts[c].url /\ pcBatch = "off"
          /\ Len(atts'[c]) = Len(atts[c]) + 1
          => LET a == atts'[c][Len(atts'[c])]
             IN  /\ a.promise = "rejected" /\ a.err = AbortErr
                 /\ a.xhr = "unsent" /\ ~a.listening /\ a.timer = "none"
                 /\ a.log = <<CbError(AbortErr)>>]_vars
  /\ [](\A ck \in Attempts :
          Att(ck).xhr = "unsent" =>
            /\ Count(Att(ck).log, {"onStart", "onProgress", "onResponse"}) = 0
            /\ ~Att(ck).abortCalled)
  /\ [][\A ck \in Attempts :
          Att(ck).xhr = "unsent" => atts'[ck[1]][ck[2]].xhr = "unsent"]_vars

\* an attempt was started with the signal already signalled
C5_Witness ==
  /\ signalAborted
  /\ pcBatch = "off"
  /\ opts[1].url
  /\ Len(atts[1]) = 1
  /\ atts[1][1].xhr = "unsent"
  /\ atts[1][1].log = <<CbError(AbortErr)>>

\* (mutant of doUpload: doUploadNoAbortedCheck)

\* C6: with a retry policy of attempts = N >= 1, doUpload is invoked once per
\* attempt; uplnk stops at the first attempt i that succeeds, or whose failure
\* makes shouldRetry(err, i) false, or with i = N - 1, and rejects with that
\* attempt's error; until then it goes on.
C6_RetryLoop ==
  \A c \in Calls :
    LET retry == opts[c].retry
        n == Len(atts[c])
    IN  pcBatch = "off" /\ retry # NoRetry /\ retry.attempts >= 1 /\ call[c].pc # "idle" =>
          /\ n = call[c].attempt + 1
          /\ n <= retry.attempts
          /\ \A k \in 1..(n - 1) : atts[c][k].promise = "rejected"
          /\ call[c].pc = "resolved" => atts[c][n].promise = "resolved"
          /\ call[c].pc = "rejected" =>
               /\ atts[c][n].promise = "rejected"
               /\ call[c].err = atts[c][n].err
               /\ n = retry.attempts \/ ~ShouldRetry(retry.shouldRetry, call[c].err, n - 1)
          /\ call[c].pc = "delay" =>
               /\ atts[c][n].promise = "rejected"
               /\ n < retry.attempts
               /\ ShouldRetry(retry.shouldRetry, call[c].lastErr, n - 1)
          /\ retry.shouldRetry = "always" /\ call[c].pc = "rejected" => n = retry.attempts
          /\ retry.shouldRetry = "never" /\ call[c].pc \in {"rejected", "delay"} => n = 1

\* every attempt of an always-retrying policy failed: N attempts, then the
\* last error
C6_Witness ==
  /\ pcBatch = "off"
  /\ opts[1].retry = customRetry(MaxAttempts, "always", "linear")
  /\ call[1].pc = "rejected"
  /\ Len(atts[1]) = MaxAttempts
  /\ call[1].err = NetworkErr

\* (mutant of uplnkResume: uplnkResumeOneMore)

\* the delay a policy computes before the attempt after `attempt`
PolicyDelay(delayMs, attempt) ==
  IF delayMs.kind = "number" THEN delayMs.ms ELSE DelayFn(delayMs.fn, attempt)

\* C7: before attempt i + 1 uplnk waits the policy's delay: delayMs when it is
\* a number, delayMs(i) when it is a function.
C7_WaitsPolicyDelay ==
  \A c \in Calls : \A n \in DOMAIN call[c].waits :
    call[c].waits[n] = PolicyDelay(opts[c].retry.delayMs, n - 1)

Pending == {i \in Calls : item[i].status = "pending"}

\* C8: with stopOnError, once an item has failed no item goes from pending to
\* uploading; the items uploading at that moment are not cancelled (their
\* transports are not aborted and fail with abort only if the caller's signal
\* fired) and have settled, completed or failed, when batchUpload returns.
C8_StopOnError ==
  /\ [][\A i \in Calls :
          bopts.stopOnError /\ failed >= 1 /\ i \in Pending
          => item'[i].status = "pending" /\ atts'[i] = <<>>]_vars
  /\ [](bopts.stopOnError /\ ~signalAborted =>
          \A i \in Calls :
            /\ \A k \in 1..Len(atts[i]) :
                 ~atts[i][k].abortCalled /\ atts[i][k].err # AbortErr
            /\ item[i].error # AbortErr
            /\ pcBatch = "done" => item[i].status # "uploading")
  /\ [][\A i \in Calls :
          bopts.stopOnError /\ aborted /\ i \in Uploading /\ ~signalAborted'
          => \/ item'[i].status = "uploading" /\ atts'[i] = atts[i]
             \/ item'[i].status = "uploading" /\ atts[i][1].xhr = "sent"
             \/ item'[i].status = "completed" /\ call[i].pc = "resolved"
             \/ item'[i].status = "failed" /\ call[i].pc = "rejected"]_vars

\* the first failure stopped the dispatch while an item is uploading and
\* another is waiting
C8_Witness ==
  /\ bopts.stopOnError
  /\ ~signalAborted
  /\ failed = 1
  /\ aborted
  /\ Uploading # {}
  /\ Pending # {}

\* an item still uploading at the first failure completed afterwards
C8_WitnessSettled ==
  /\ bopts.stopOnError
  /\ ~signalAborted
  /\ pcBatch = "done"
  /\ result.failed = 1 /\ result.successful = 1
  /\ item[1].status = "failed" /\ item[2].status = "completed"
  /\ item[3].status = "pending"

Succeeded == {c \in Calls : call[c].pc = "resolved"}

Failed == {c \in Calls : call[c].pc = "rejected"}

\* C9: with stopOnError = false and a signal that never fires, batchUpload
\* returns with every item completed or failed, successful = the number of
\* transfers that succeeded, failed = the number that failed, their sum the
\* number of items, and aborted = false.
C9_AllItemsRun ==
  pcBatch = "done" /\ ~bopts.stopOnError /\ ~signalAborted =>
    /\ \A i \in Calls : item[i].status \in {"completed", "failed"}
    /\ \A i \in Calls : item[i].status = "completed" <=> i \in Succeeded
    /\ \A i \in Calls : item[i].status = "failed" <=> i \in Failed
    /\ result.successful = Cardinality(Succeeded)
    /\ result.failed = Cardinality(Failed)
    /\ result.successful + result.failed = MaxCalls
    /\ ~result.aborted

\* a batch in which some transfers failed and one succeeded has returned
C9_Witness ==
  /\ pcBatch = "done"
  /\ ~bopts.stopOnError
  /\ ~signalAborted
  /\ result.failed = 2
  /\ result.successful = 1

TransportEnded(i) == Len(atts[i]) = 1 /\ atts[i][1].xhr = "done"

C11_AbortedFlag ==
  [][pcBatch # "done" /\ pcBatch' = "done" =>
       (result'.aborted <=>
          \/ signalAborted'
          \/ bopts.stopOnError /\ \E i \in Calls : item'[i].status = "pending")]_vars

\* C12: a failed transfer never makes batchUpload fail: it is recorded on its
\* item (status "failed", error = the transfer's rejection), counted in failed
\* and handed to onItemError; the batch goes on to return a result whose failed
\* count is the number of failed transfers.
C12_FailuresRecorded ==
  /\ \A i \in Calls :
       /\ call[i].pc = "rejected" /\ ItemJob(i) \notin jobs =>
            /\ item[i].status = "failed"
            /\ item[i].error = call[i].err
            /\ item[i].reported = "onItemError"
       /\ item[i].status = "failed" => call[i].pc = "rejected"
       /\ item[i].reported = "onItemError" => item[i].status = "failed"
  /\ failed = Cardinality({i \in Calls : item[i].status = "failed"})
  /\ pcBatch \notin {"init", "off"} /\ jobs = {} /\ Uploading = {} => pcBatch = "done"
  /\ pcBatch = "done" => result # NoResult /\ result.failed = Cardinality(Failed)

\* every transfer of a batch failed, each with its own error, and the batch
\* returned
C12_Witness ==
  /\ pcBatch = "done"
  /\ ~signalAborted
  /\ result.failed = MaxCalls
  /\ item[1].error = NetworkErr
  /\ item[2].error = HttpErr(503)
  /\ \A i \in Calls : item[i].reported = "onItemError"

\* C19 (as stated): in one attempt the terminal callback (onResponse or
\* onError) is the last callback invoked: nothing is invoked after it.
C19_TerminalCallbackLast ==
  \A ck \in Attempts :
    \A n \in DOMAIN Att(ck).log :
      Att(ck).log[n].cb \in Terminal => n = Len(Att(ck).log)

\* the onProgress snapshots of a log that report 100%
Full(log) == {n \in DOMAIN log : log[n].cb = "onProgress" /\ log[n].p.percent = 100}

\* C20 (as stated): a successful attempt with emitOnEnd, for a payload of size
\* S > 0, delivers as its last progress snapshot loaded = total = S,
\* percent = 100, and delivers a 100% snapshot exactly once.
C20_FinalSnapshotOnce ==
  \A ck \in Attempts :
    LET o == opts[ck[1]]
        log == Att(ck).log
    IN  pcBatch = "off" /\ o.emitOnEnd /\ o.size > 0 /\ Att(ck).promise = "resolved"
        /\ Count(log, {"onResponse"}) > 0 =>
          /\ Cardinality(Full(log)) = 1
          /\ \A n \in Full(log) :
               /\ log[n].p = [loaded |-> o.size, total |-> o.size, percent |-> 100]
               /\ \A m \in DOMAIN log : log[m].cb = "onProgress" => m <= n

----------------------------------------------------------------------------
\* Properties of the upload queue

PendingItems == SelectSeq(q.items, IsPending)

\* the batch item that stands for the queue item with this id, or 0
BatchIndex(id) ==
  IF \E b \in 1..Len(q.scheduled) : q.scheduled[b] = id
  THEN CHOOSE b \in 1..Len(q.scheduled) : q.scheduled[b] = id
  ELSE 0

\* the queue's batch has returned and its .finally callback has run
BatchSettled == q.made /\ pcBatch = "done" /\ q.currentBatch = "null" /\ jobs = {}

\* C13 (as stated): once a batch started by the queue has settled, the queue's
\* item list shows the outcomes: every item that batch processed is completed
\* or failed in getItems(), and getStatus().completed / .failed equal the
\* batch result's successful / failed.
C13_QueueShowsOutcomes ==
  BatchSettled =>
    /\ getStatus(World).completed = result.successful
    /\ getStatus(World).failed = result.failed
    /\ \A n \in 1..Len(getItems(World)) :
         LET b == BatchIndex(getItems(World)[n].id)
         IN  b # 0 /\ item[b].status \in {"completed", "failed"} =>
               getItems(World)[n].status = item[b].status

\* C14: start() hands to batchUpload exactly the items pending at that moment,
\* in order; the batch's set of items is fixed from then on (an item added
\* while it runs does not join it, and only its items are ever dispatched);
\* start() while the queue is running changes nothing.
C14_StartSchedulesPending ==
  /\ [][q'.starts = q.starts + 1 =>
          /\ ~q.isRunning
          /\ q'.scheduled = Ids(PendingItems)
          /\ Len(q'.scheduled) > 0
          /\ uploads' = Len(q'.scheduled)]_vars
  /\ [][QueueStart /\ ~q.isRunning /\ Len(PendingItems) > 0 =>
          q'.starts = q.starts + 1]_vars
  /\ [][q'.starts = q.starts => q'.scheduled = q.scheduled /\ uploads' = uploads]_vars
  /\ [](\A c \in Calls :
          atts[c] # <<>> \/ item[c].status # "pending" => c <= Len(q.scheduled))
  /\ [][QueueStart /\ q.isRunning =>
          /\ q'.starts = q.starts /\ q'.isRunning
          /\ UNCHANGED <<atts, call, item, pcBatch, queue, active, jobs, result>>]_vars

\* an item was added while a batch of one item is in flight: it is in the
\* queue's list and not among the batch's items
C14_Witness ==
  /\ q.isRunning
  /\ pcBatch = "race"
  /\ Len(q.items) = 2
  /\ q.scheduled = <<1>>
  /\ item[1].status = "uploading"
  /\ atts[2] = <<>>

\* C15 (as stated): a start() or waitForCompletion() call made when no batch
\* is in flight (and the queue was never aborted) launches a batch with every
\* pending item, whatever add/start/waitForCompletion calls came before.
C15_NextStartPicksUp ==
  [][/\ QueueStart \/ QueueWait
     /\ ~signalAborted
     /\ q.currentBatch = "null" /\ pcBatch \in {"none", "done"}
     /\ Len(PendingItems) > 0
     => /\ q'.starts = q.starts + 1
        /\ q'.scheduled = Ids(PendingItems)]_vars

\* the counts waitForCompletion() computes from the queue's item list
ItemCounts(its) ==
  [successful |-> CountItems(its, "completed"),
   failed |-> CountItems(its, "failed"),
   aborted |-> FALSE]

Place(its, id) ==
  IF \E n \in 1..Len(its) : its[n].id = id
  THEN CHOOSE n \in 1..Len(its) : its[n].id = id
  ELSE 0

\* C18: clear() removes from the queue's list exactly the completed and failed
\* items; every pending or uploading item stays, unchanged, in the same
\* relative order.
C18_ClearRemovesTerminal ==
  [][QueueClear =>
       /\ \A n \in 1..Len(q.items) :
            LET it == q.items[n]
            IN  IF IsTerminal(it) THEN Place(q'.items, it.id) = 0
                ELSE Place(q'.items, it.id) # 0 /\ q'.items[Place(q'.items, it.id)] = it
       /\ \A n \in 1..Len(q'.items) : Place(q.items, q'.items[n].id) # 0
       /\ \A m, n \in 1..Len(q'.items) :
            m < n => Place(q.items, q'.items[m].id) < Place(q.items, q'.items[n].id)
       /\ Len(q'.items) = CountItems(q.items, "pending") + CountItems(q.items, "uploading")]_vars

\* clear() has removed the middle one of three items and left the uploading
\* first and the pending last
C18_Witness ==
  /\ q.added = MaxCalls
  /\ Len(q.items) = 2
  /\ q.items[1].status = "uploading" /\ q.items[1].id = 1
  /\ q.items[2].status = "pending" /\ q.items[2].id = MaxCalls

----------------------------------------------------------------------------
\* Scenario of one upload

\* the percents of the onProgress calls of a log, in order
Percents(log) ==
  LET calls == SelectSeq(log, LAMBDA e : e.cb = "onProgress")
  IN  [n \in 1..Len(calls) |-> calls[n].p.percent]

\* the transport reported a quarter, a half and the whole of the payload
QuarterHalfWhole(size) == <<size \div 4, size \div 2, size>>

\* C21 (as stated): a payload of S bytes sent with the default options and no
\* retry, whose transport reports progress at S/4, S/2 and S of S and then
\* succeeds, shows onProgress exactly the percents of those three events
\* (25, 50, 100 when 4 divides S), and uplnk resolves.
C21_ScenarioPercents ==
  \A ck \in Attempts :
    LET o == opts[ck[1]]
        a == Att(ck)
    IN  /\ pcBatch = "off" /\ o = DefaultOptions /\ lengthComputable
        /\ a.events = QuarterHalfWhole(o.size)
        /\ a.xhr = "done" /\ a.promise = "resolved" /\ ~signalAborted
        => /\ Percents(a.log) =
                [n \in 1..3 |-> (QuarterHalfWhole(o.size)[n] * 100) \div o.size]
           /\ call[ck[1]].pc \in {"attempt", "resolved"}

\* the attempt of a call that is under way or was the last
Latest == {ck \in Attempts : ck[2] = Len(atts[ck[1]])}

\* C22: with no cancellation and no timeout involved, the transport decides
\* the outcome of an attempt: a response with status 200..299 resolves it, a
\* response with any other status rejects it with {type: "http", status} and
\* the response text when there is one, a transport error with no response
\* rejects it with {type: "network"}.
C22_OutcomeFromTransport ==
  \A ck \in Latest :
    LET a == Att(ck)
    IN  pcBatch = "off" /\ ~signalAborted /\ a.timer # "fired" /\ a.xhr = "done" =>
          /\ a.status \in 200..299 => a.promise = "resolved"
          /\ a.status # 0 /\ a.status \notin 200..299 =>
               /\ a.promise = "rejected"
               /\ a.err = [type |-> "http", status |-> a.status,
                           response |-> a.responseText]
          /\ a.status = 0 => a.promise = "rejected" /\ a.err = NetworkErr

\* a response just past the success range rejected the attempt with its
\* status and text
C22_Witness ==
  /\ pcBatch = "off"
  /\ ~signalAborted
  /\ Len(atts[1]) = 1
  /\ atts[1][1].timer = "none"
  /\ atts[1][1].status = 300
  /\ atts[1][1].promise = "rejected"
  /\ atts[1][1].err = [type |-> "http", status |-> 300, response |-> "body"]
  /\ call[1].pc = "rejected"

\* (mutant of onLoad: onLoadThrough300)

\* C23 (as stated): with an empty url uplnk rejects with the "url is required"
\* error without opening the transport or invoking any callback, and whatever
\* the retry policy no second attempt is made and shouldRetry is not consulted.
C23_UrlRequired ==
  \A c \in Calls :
    pcBatch = "off" /\ ~opts[c].url /\ call[c].pc # "idle" =>
      /\ Len(atts[c]) = 1
      /\ atts[c][1].xhr = "unsent" /\ atts[c][1].log = <<>>
      /\ ~atts[c][1].listening /\ atts[c][1].timer = "none"
      /\ atts[c][1].promise = "rejected"
      /\ call[c].asked = <<>>
      /\ call[c].pc \in {"attempt", "rejected"}
      /\ call[c].pc = "rejected" => call[c].err = UrlErr

----------------------------------------------------------------------------
\* Properties of the library's pure functions

\* C24: the retry predicates of the named policies, at every attempt index:
\* none of them retries an abort; exponentialBackoff and fixedDelay retry a
\* network error, a timeout, and an http error exactly when its status is one
\* of retryableStatuses; networkErrorsOnly retries a network error only.
C24_NamedPredicates ==
  args.fn = "shouldRetry" /\ ret.done =>
    LET err == args.err
        retryable ==
          \/ err.type \in {"network", "timeout"}
          \/ err.type = "http" /\ err.status \in args.retryableStatuses
    IN  /\ err.type = "abort" => ~ret.shouldRetry
        /\ args.policy \in {"exponentialBackoff", "fixedDelay"} =>
             (ret.shouldRetry <=> retryable)
        /\ args.policy = "networkErrorsOnly" =>
             (ret.shouldRetry <=> err.type = "network")

\* exponentialBackoff's predicate was asked about a 503 at the last attempt
\* index and said yes
C24_Witness ==
  /\ args.fn = "shouldRetry"
  /\ args.policy = "exponentialBackoff"
  /\ args.retryableStatuses = RetryableStatuses
  /\ args.err = HttpErr(503)
  /\ args.attempt = MaxAttempts
  /\ ret.done
  /\ ret.shouldRetry

\* (mutant of exponentialBackoffShouldRetry: exponentialBackoffRetriesAll)

\* C25: calculateBackoffDelay(attempt, base, max, jitter) is exactly
\* d = min(base * 2^attempt, max) without jitter, and with jitter a value in
\* [d, 1.25 * d]: never below d.
C25_BackoffDelay ==
  args.fn = "calculateBackoffDelay" /\ ret.done =>
    LET doubled == args.baseDelayMs * (2 ^ args.attempt)
        d == IF doubled < args.maxDelayMs THEN doubled ELSE args.maxDelayMs
    IN  /\ ~args.jitter => ret.delay.den = 1 /\ ret.delay.num = d
        /\ args.jitter =>
             /\ ret.delay.den > 0
             /\ d * ret.delay.den <= ret.delay.num
             /\ 4 * ret.delay.num <= 5 * d * ret.delay.den

\* a jittered delay at the cap came out longer than the cap
C25_Witness ==
  /\ args.fn = "calculateBackoffDelay"
  /\ args.jitter
  /\ args.attempt = MaxBackoff
  /\ args.baseDelayMs = BaseDelayMs
  /\ args.maxDelayMs = MaxDelayMs
  /\ ret.done
  /\ ret.delay.num > MaxDelayMs * ret.delay.den

\* (mutant of calculateBackoffDelay: calculateBackoffDelayCentred)

\* C26: validateFile checks the size, then the type, then the custom
\* validator, and returns the first failure: a size failure leaves the type
\* check and the custom validator unevaluated, a type failure leaves the custom
\* validator uncalled; it returns null only when every configured check passes.
C26_ValidateFileOrder ==
  args.fn = "validateFile" /\ ret.done =>
    LET sizeFails == validateSize(args.file, args.options).type # "null"
        typeFails == validateType(args.file, args.options).type # "null"
        customFails == args.options.customValidator = "reject"
    IN  /\ sizeFails =>
             /\ ret.error = validateSize(args.file, args.options)
             /\ ret.evaluated = <<"validateSize">>
        /\ ~sizeFails /\ typeFails =>
             /\ ret.error = validateType(args.file, args.options)
             /\ ret.evaluated = <<"validateSize", "validateType">>
        /\ ~sizeFails /\ ~typeFails /\ customFails =>
             /\ ret.error.type = "custom"
             /\ ret.evaluated = <<"validateSize", "validateType", "customValidator">>
        /\ ret.error.type = "null" <=> ~sizeFails /\ ~typeFails /\ ~customFails

\* a file too large, of a type not allowed, with a validator that would
\* reject it: the size error came back and nothing else was evaluated
C26_Witness ==
  /\ args.fn = "validateFile"
  /\ ret.done
  /\ ret.error.type = "size-too-large"
  /\ ret.evaluated = <<"validateSize">>
  /\ validateType(args.file, args.options).type = "invalid-type"
  /\ args.options.customValidator = "reject"

\* (mutant of validateFile: validateFileTypeFirst)

----------------------------------------------------------------------------
\* Properties of a batch's items and progress

\* C27: the status of a batch item only moves pending -> uploading ->
\* completed or failed: it is uploading before its transfer is started, it
\* never goes from pending straight to a terminal status, and once terminal
\* its status never changes again.
C27_ItemLifecycle ==
  /\ [](\A i \in Calls :
          item[i].status = "pending" => atts[i] = <<>> /\ call[i].pc = "idle")
  /\ [][\A i \in Calls :
          /\ item[i].status = "pending" =>
               item'[i].status \in {"pending", "uploading"}
          /\ item[i].status = "uploading" =>
               item'[i].status \in {"uploading", "completed", "failed"}
          /\ item[i].status \in {"completed", "failed"} =>
               item'[i].status = item[i].status]_vars

\* one item completed, one failed, one is uploading
C27_Witness ==
  /\ pcBatch \notin {"off", "none"}
  /\ item[1].status = "completed"
  /\ item[2].status = "failed"
  /\ item[3].status = "uploading"
  /\ atts[3] # <<>>

\* (mutant of processItem: processItemUnmarked)

\* C28: batchUpload returns only after every dispatched item has settled: in
\* the result no item is uploading (each is completed, failed, or pending
\* still), successful is the number of completed items and failed the number
\* of failed ones, also when abort or stopOnError ended the loop early.
C28_ReturnsAfterSettled ==
  pcBatch = "done" /\ ~q.made =>
    /\ \A i \in 1..uploads : item[i].status \in {"completed", "failed", "pending"}
    /\ result.successful = Cardinality({i \in 1..uploads : item[i].status = "completed"})
    /\ result.failed = Cardinality({i \in 1..uploads : item[i].status = "failed"})
    /\ active = <<>>

\* a batch cancelled from a callback of its first completion returned: one
\* item completed, one failed by the abort, one never started
C28_Witness ==
  /\ pcBatch = "done"
  /\ ~q.made
  /\ signalAborted
  /\ result = [successful |-> 1, failed |-> 1, aborted |-> TRUE]
  /\ item[1].status = "completed"
  /\ item[2].status = "failed" /\ item[2].error = AbortErr
  /\ item[3].status = "pending"

\* (mutant of awaitAll: awaitNone)

\* the items of the batch in a status
InStatus(st) == {i \in 1..uploads : item[i].status = st}

\* C29: every BatchProgress handed to the batch's onProgress is the exact
\* aggregate of the item statuses at that moment: completed, failed, pending
\* and uploading are the numbers of items in those statuses (they sum to
\* total) and percent = completed / total * 100 (0 for an empty batch),
\* counting items, not bytes.
C29_ProgressIsAggregate ==
  /\ BatchProgress([World EXCEPT !.uploads = 0]).percent.num = 0
  /\ ~q.made /\ lastProgress # NoBatchProgress =>
      /\ lastProgress.total = uploads
      /\ lastProgress.completed = Cardinality(InStatus("completed"))
      /\ lastProgress.failed = Cardinality(InStatus("failed"))
      /\ lastProgress.pending = Cardinality(InStatus("pending"))
      /\ lastProgress.uploading = Cardinality(InStatus("uploading"))
      /\ lastProgress.completed + lastProgress.failed + lastProgress.pending
           + lastProgress.uploading = lastProgress.total
      /\ lastProgress.percent.den > 0
      /\ lastProgress.percent.num * lastProgress.total
           = lastProgress.completed * 100 * lastProgress.percent.den

\* the progress handed over with one item completed, one failed and one
\* uploading, part of its bytes sent
C29_Witness ==
  /\ ~q.made
  /\ lastProgress.total = MaxCalls
  /\ lastProgress.completed = 1
  /\ lastProgress.failed = 1
  /\ lastProgress.uploading = 1
  /\ lastProgress.uploadedBytes > PayloadSize
  /\ lastProgress.uploadedBytes < 2 * PayloadSize

\* (mutant of BatchProgress: BatchProgressByBytes)

\* in this step: the item status changes, and the calls of the per-item
\* onProgress callbacks
Transitions == Cardinality({i \in Calls : item'[i].status # item[i].status})

ItemProgressCalls ==
  LET calls[n \in 0..MaxCalls] ==
        IF n = 0 THEN 0
        ELSE calls[n - 1] + (item'[n].progressCalls - item[n].progressCalls)
  IN  calls[MaxCalls]

\* the aggregate of a batch none of whose items has been dispatched
ZeroProgress ==
  [total |-> uploads, completed |-> 0, failed |-> 0, pending |-> uploads,
   uploading |-> 0, percent |-> [num |-> 0, den |-> uploads],
   totalBytes |-> uploads * PayloadSize, uploadedBytes |-> 0]

\* C30 (as stated): with an onProgress callback batchUpload calls it once at
\* batch start, before any item is dispatched, once on every per-item
\* progress callback and once on every item state transition.
C30_AsStated ==
  /\ [][pcBatch = "init" /\ pcBatch' # "init" /\ bopts.onProgress =>
          emits'.count >= 1 /\ emits'.first = ZeroProgress]_vars
  /\ [][~q.made /\ bopts.onProgress =>
          emits'.count - emits.count
            = (IF pcBatch = "init" /\ pcBatch' # "init" THEN 1 ELSE 0)
              + ItemProgressCalls + Transitions]_vars

\* C30 (amended): as stated, for a call whose signal is not already aborted;
\* a call whose signal is already aborted returns without calling onProgress.
C30_ProgressTriggers ==
  /\ [][pcBatch = "init" /\ pcBatch' # "init" /\ bopts.onProgress /\ ~q.made =>
          IF signalAborted THEN emits'.count = 0 /\ pcBatch' = "done"
          ELSE emits'.count >= 1 /\ emits'.first = ZeroProgress]_vars
  /\ [][~q.made /\ bopts.onProgress =>
          emits'.count - emits.count
            = (IF pcBatch = "init" /\ pcBatch' # "init" /\ ~signalAborted THEN 1 ELSE 0)
              + ItemProgressCalls + Transitions]_vars

\* a batch returned with every item completed: onProgress was called at the
\* start, on each of the two transitions of every item and on every per-item
\* progress callback, three of them for the first item
C30_Witness ==
  /\ ~q.made
  /\ pcBatch = "done"
  /\ \A i \in Calls : item[i].status = "completed"
  /\ item[1].progressCalls = 3
  /\ emits.count = 1 + 2 * MaxCalls
                   + item[1].progressCalls + item[2].progressCalls + item[3].progressCalls
  /\ emits.first = ZeroProgress

\* (mutant of batchUpload: batchUploadNoInitial)

----------------------------------------------------------------------------
\* Properties of the timer, the retry cap and the progress callbacks

\* C31 (as stated): once an attempt has reached a terminal outcome its timeout
\* timer is disarmed: no settled attempt has an armed timer, and the timer
\* never fires on an attempt that has settled.
C31_TimerDisarmed ==
  /\ [](\A ck \in Attempts :
          pcBatch = "off" /\ Att(ck).promise # "pending" => Att(ck).timer # "armed")
  /\ [][\A ck \in Attempts :
          pcBatch = "off" /\ Att(ck).promise # "pending" /\ Att(ck).timer # "fired"
          => atts'[ck[1]][ck[2]].timer # "fired"]_vars

\* C32: shouldRetry is never consulted once the attempt cap is reached: with
\* attempts = N it is called with the attempt indices 0, 1, ..., in order and
\* none above N - 2, and the failure of attempt N - 1 ends the call without
\* a shouldRetry call.
C32_NoPredicateAtCap ==
  /\ [](\A c \in Calls :
          LET retry == opts[c].retry
          IN  pcBatch = "off" /\ retry # NoRetry =>
                /\ \A n \in DOMAIN call[c].asked :
                     call[c].asked[n] = n - 1 /\ call[c].asked[n] <= retry.attempts - 2
                /\ Len(call[c].asked) <= call[c].attempt + 1)
  /\ [][\A c \in Calls :
          LET retry == opts[c].retry
          IN  pcBatch = "off" /\ retry # NoRetry
              /\ call[c].pc = "attempt" /\ call[c].attempt = retry.attempts - 1
              /\ call'[c].pc = "rejected"
              => call'[c].asked = call[c].asked]_vars

\* the last attempt of an always-retrying policy failed: shouldRetry was asked
\* about every attempt but that one
C32_Witness ==
  /\ pcBatch = "off"
  /\ opts[1].retry = customRetry(MaxAttempts, "always", "linear")
  /\ call[1].pc = "rejected"
  /\ call[1].attempt = MaxAttempts - 1
  /\ atts[1][MaxAttempts].promise = "rejected"
  /\ call[1].asked = [n \in 1..(MaxAttempts - 1) |-> n - 1]

\* (mutant of uplnkResume: uplnkResumeAsksFirst)

\* the loaded values onProgress was called with, in order
Loads(log) ==
  LET calls == SelectSeq(log, LAMBDA e : e.cb = "onProgress")
  IN  [n \in 1..Len(calls) |-> calls[n].p.loaded]

C34_ThrottleSpacing ==
  [][\A ck \in Attempts :
       LET a == Att(ck)
           b == atts'[ck[1]][ck[2]]
           calls == SelectSeq(b.log, LAMBDA e : e.cb = "onProgress")
       IN  /\ pcBatch = "off"
           /\ Len(Loads(b.log)) = Len(Loads(a.log)) + 1
           /\ a.progressAt # Undef
           /\ calls[Len(calls)].p.percent # 100
           => now' - a.progressAt >= opts[ck[1]].throttleMs]_vars

\* the callbacks of a log invoked before xhr.send()
BeforeSend(a) == SubSeq(a.log, 1, a.sendAt)

\* C35: in every attempt that reaches the transport onStart is invoked exactly
\* once, after xhr.open() and before xhr.send(); with emitOnStart one progress
\* snapshot, with loaded = 0, is delivered before send, and without
\* emitOnStart no progress is delivered before the first transport event.
C35_StartBeforeSend ==
  \A ck \in Latest :
    LET a == Att(ck)
        o == opts[ck[1]]
    IN  pcBatch = "off" /\ a.xhr # "unsent" =>
          /\ Count(a.log, {"onStart"}) = 1
          /\ a.openAt = 0 /\ a.sendAt >= 1
          /\ a.log[1] = CbStart
          /\ IF o.emitOnStart
             THEN /\ Count(BeforeSend(a), {"onProgress"}) = 1
                  /\ Loads(BeforeSend(a)) = <<0>>
             ELSE /\ Count(BeforeSend(a), {"onProgress"}) = 0
                  /\ Len(Loads(a.log)) <= Len(a.events)

\* an attempt in flight: onStart and the start snapshot came before send, a
\* transport event after it
C35_Witness ==
  /\ pcBatch = "off"
  /\ Len(atts[1]) = 1
  /\ atts[1][1].xhr = "sent"
  /\ opts[1].emitOnStart
  /\ atts[1][1].sendAt = 2
  /\ Loads(atts[1][1].log) = <<0, PayloadSize \div 2>>

\* (mutant of doUpload: doUploadSendFirst)

----------------------------------------------------------------------------
\* Properties of the queue's life and of the unusual option values

\* C36 (as stated): over any sequence of add, start, waitForCompletion and
\* clear calls on one queue, abort never called, each added request is handed
\* to the transfer executor at most once.
C36_TransferredAtMostOnce ==
  q.made /\ ~signalAborted => \A id \in 1..MaxAdds : q.transfers[id] <= 1

\* C37 (as stated): batchUpload eventually returns, for every list of requests
\* and every number given as the concurrency limit (0 and negative numbers
\* too), when every dispatched transfer eventually settles.
\* Stated on finite runs: while the call has not returned, a promise reaction
\* is pending or a dispatched transfer is still to settle and the runtime is
\* free to deliver its event; every step of the batch uses one of them up.
C37_BatchReturns ==
  pcBatch \in {"race", "all", "spin"} =>
    \/ jobs # {}
    \/ /\ pcBatch # "spin"
       /\ \E c \in 1..uploads : \E k \in 1..Len(atts[c]) : atts[c][k].xhr = "sent"

\* C38 (as stated): whatever the retry policy, attempts <= 0 included, uplnk
\* resolves only if some attempt ended in success, and rejects only with the
\* error of the last attempt made.
C38_ResolvesOnlyOnSuccess ==
  \A c \in Calls :
    pcBatch = "off" =>
      /\ call[c].pc = "resolved" =>
           \E k \in 1..Len(atts[c]) : atts[c][k].promise = "resolved"
      /\ call[c].pc = "rejected" =>
           /\ Len(atts[c]) > 0
           /\ atts[c][Len(atts[c])].promise = "rejected"
           /\ call[c].err = atts[c][Len(atts[c])].err

\* C39: after abort() the queue's signal stays aborted for the rest of the
\* queue's life: every batch a later start() / waitForCompletion() launches
\* returns at once with aborted = true, successful = 0, failed = 0 and hands
\* no item to uplnk, the items added after the abort included.
C39_AbortIsForLife ==
  /\ [][QueueAbort => signalAborted']_vars
  /\ [][q.made /\ signalAborted => signalAborted']_vars
  /\ [][q.made /\ signalAborted /\ q'.starts = q.starts + 1 =>
          /\ q'.scheduled = Ids(PendingItems)
          /\ pcBatch' = "done"
          /\ result' = [successful |-> 0, failed |-> 0, aborted |-> TRUE]
          /\ q'.transfers = q.transfers
          /\ \A c \in Calls : atts'[c] = <<>> /\ item'[c].status = "pending"]_vars
  /\ [][q.made /\ signalAborted /\ q.waitPc = "pending" /\ q'.waitPc = "resolved" =>
          q'.waitResult.aborted]_vars

\* the second batch was launched after abort(): it held both items, returned
\* aborted, and the second item was never handed to uplnk
C39_Witness ==
  /\ q.made /\ signalAborted
  /\ q.starts = 2
  /\ q.scheduled = <<1, 2>>
  /\ pcBatch = "done"
  /\ result = [successful |-> 0, failed |-> 0, aborted |-> TRUE]
  /\ q.transfers = <<1, 0>>

\* (mutant of batchUpload: batchUploadIgnoresSignal)

\* C40 (as stated): whenever getStatus().isRunning is true a batch started by
\* the queue is in flight: the queue holds its promise, which has not settled
\* or whose .finally callback is about to run; so the queue is idle after a
\* start() that found no pending item, and after every batch has settled.
C40_RunningMeansBatch ==
  q.made /\ getStatus(World).isRunning =>
    /\ q.currentBatch # "null"
    /\ pcBatch \in {"race", "all"} \/ FinallyJob \in jobs

====
